---- MODULE Spec2Model ----
(***************************************************************************)
(* Model of backend/src/fifa_engine.py (FifaEngine): group standings, the  *)
(* FIFA tie-break sort, third-place ranking and knockout bracket           *)
(* resolution.                                                             *)
(*                                                                         *)
(* Conventions                                                             *)
(*  - a Python str is a sequence of one-character strings, so that         *)
(*    startswith / replace / strip / split are computed, not assumed;      *)
(*  - a Python dict is a sequence of entries in insertion order (the order *)
(*    .values() and .items() iterate in);                                  *)
(*  - Optional[T] is [some |-> FALSE] (None) or [some |-> TRUE, val |-> v];*)
(*  - a call that can raise returns [exc |-> name, ret |-> value].         *)
(***************************************************************************)
EXTENDS Integers, Sequences, FiniteSets, TLC

VARIABLES
    pc,                 \* position of the running call
    group_letter,       \* calculate_standings argument
    results,            \* calculate_standings argument: list of match dicts
    cards,              \* calculate_standings argument: Optional list of card dicts
    predicted_ranks,    \* calculate_standings argument: Optional dict name -> rank
    standings_dict,     \* local of calculate_standings (insertion ordered)
    idx,                \* loop index of "for match in results"
    sorted_standings,   \* value returned by calculate_standings
    all_standings,      \* Dict[str, List[GroupStanding]] (insertion ordered)
    third_place_teams,  \* local of rank_third_place_teams
    third_place,        \* value returned by rank_third_place_teams
    knockout_matches,   \* resolve_knockout_bracket argument
    third_place_by_group, \* local of resolve_knockout_bracket
    resolved_matches,   \* local of resolve_knockout_bracket
    resolved,           \* outcome of resolve_knockout_bracket
    team_names,         \* calculate_predicted_standings argument
    group_predictions,  \* calculate_predicted_standings argument
    simulated_results,  \* local of calculate_predicted_standings
    predicted_standings, \* local of calculate_predicted_standings
    predicted_map,      \* value returned by calculate_predicted_standings
    invocations,        \* concurrent calls: operation, position, argument, value
    frames,             \* the local variables of each concurrent call
    interleaved,        \* history: a call took a step while another was running
    groups              \* update_tournament: team names by group letter

vars == <<pc, group_letter, results, cards, predicted_ranks, standings_dict,
          idx, sorted_standings, all_standings, third_place_teams,
          third_place, knockout_matches, third_place_by_group,
          resolved_matches, resolved, team_names, group_predictions,
          simulated_results, predicted_standings, predicted_map,
          invocations, frames, interleaved, groups>>

predVars == <<team_names, group_predictions, simulated_results,
              predicted_standings, predicted_map>>
concVars == <<invocations, frames, interleaved>>
pipeVars == <<groups>>

calcVars == <<group_letter, results, cards, predicted_ranks, standings_dict,
              idx, sorted_standings>>
bracketVars == <<all_standings, third_place_teams, third_place,
                 knockout_matches, third_place_by_group, resolved_matches,
                 resolved>>

-----------------------------------------------------------------------------
(* Bounds of the explored input space *)

MaxResults == 2         \* longest results list when no cards are passed
MaxScore == 1           \* largest score of one side of a match
MaxCardResults == 1     \* longest results list when one card record is passed
MaxTwoCardResults == 1  \* longest results list when two card records are passed
MaxCardCount == 1       \* largest count in a disciplinary record
MaxAiResults == 1       \* longest results list when predicted ranks are passed
MaxGroups == 9          \* most groups in the map given to rank_third_place_teams
MaxQualifiers == 2      \* longest qualifier list given to resolve_knockout_bracket
MaxMatches == 2         \* longest knockout match list

-----------------------------------------------------------------------------
(* Python values *)

None == [some |-> FALSE]
Some(v) == [some |-> TRUE, val |-> v]

\* dict.get(key, default)
Get(d, key, default) == IF key \in DOMAIN d THEN d[key] ELSE default

Range(s) == {s[i] : i \in 1..Len(s)}

SeqUpTo(S, n) == UNION {[1..k -> S] : k \in 0..n}

Reverse(s) == [i \in 1..Len(s) |-> s[Len(s) + 1 - i]]

Min(a, b) == IF a < b THEN a ELSE b

\* team names
Mexico == <<"M", "e", "x", "i", "c", "o">>
Poland == <<"P", "o", "l", "a", "n", "d">>
TeamPrefix == <<"T", "e", "a", "m", " ">>
TeamC == TeamPrefix \o <<"C">>
TeamD == TeamPrefix \o <<"D">>
TBD == <<"T", "B", "D">>

\* "Team <g><k>", the k-th team of group g
GroupTeam(g, k) == TeamPrefix \o g \o <<k>>

AllGroupLetters ==
    << <<"A">>, <<"B">>, <<"C">>, <<"D">>, <<"E">>, <<"F">>,
       <<"G">>, <<"H">>, <<"I">>, <<"J">>, <<"K">>, <<"L">> >>

\* int(hashlib.md5(name.encode()).hexdigest(), 16), kept to its leading
\* 28 bits (the first 7 hex digits of the digest), which preserves the order
\* of the digests of the names below.
MD5Table ==
    (Mexico :> 148615290) @@ (Poland :> 155746493) @@
    (TeamC :> 38761886) @@ (TeamD :> 35313311) @@
    (GroupTeam(<<"A">>, "3") :> 122623641) @@
    (GroupTeam(<<"B">>, "3") :> 161066559) @@
    (GroupTeam(<<"C">>, "3") :> 43899145) @@
    (GroupTeam(<<"D">>, "3") :> 78103593) @@
    (GroupTeam(<<"E">>, "3") :> 55266856) @@
    (GroupTeam(<<"F">>, "3") :> 102651256) @@
    (GroupTeam(<<"G">>, "3") :> 174373180) @@
    (GroupTeam(<<"H">>, "3") :> 76239170) @@
    (GroupTeam(<<"I">>, "3") :> 218373452) @@
    (GroupTeam(<<"J">>, "3") :> 258328931) @@
    (GroupTeam(<<"K">>, "3") :> 231804528) @@
    (GroupTeam(<<"L">>, "3") :> 32377322) @@
    (GroupTeam(<<"A">>, "2") :> 239395530) @@
    (GroupTeam(<<"B">>, "2") :> 201137710) @@
    (GroupTeam(<<"C">>, "2") :> 180780284) @@
    (GroupTeam(<<"D">>, "2") :> 157688455) @@
    (GroupTeam(<<"E">>, "2") :> 34958149) @@
    (GroupTeam(<<"F">>, "2") :> 264173603) @@
    (GroupTeam(<<"G">>, "2") :> 247631435) @@
    (GroupTeam(<<"H">>, "2") :> 194538416) @@
    (GroupTeam(<<"I">>, "2") :> 29234007) @@
    (GroupTeam(<<"J">>, "2") :> 232495041) @@
    (GroupTeam(<<"K">>, "2") :> 26833144) @@
    (GroupTeam(<<"L">>, "2") :> 253077458)

TeamHash(team_name) == MD5Table[team_name]

NoRank == 0     \* predicted_rank = None (ranks are 1-based)
AiSentinel == 999

GroupStanding(team_name, group) ==
    [team_name |-> team_name, group_letter |-> group, rank |-> 0,
     played |-> 0, won |-> 0, draw |-> 0, lost |-> 0,
     goals_for |-> 0, goals_against |-> 0, goal_difference |-> 0,
     points |-> 0, fair_play_points |-> 0, predicted_rank |-> NoRank]

-----------------------------------------------------------------------------
(* sorted(standings, key=sort_key): Python's sort is stable, so the element *)
(* at input position i lands after every element with a smaller key and     *)
(* after every element with an equal key at an earlier position.            *)

TupleLess(a, b) ==
    \E k \in 1..Len(a) :
        /\ a[k] < b[k]
        /\ \A j \in 1..(k - 1) : a[j] = b[j]

SortedPos(keys, i) ==
    1 + Cardinality({j \in 1..Len(keys) :
                        \/ TupleLess(keys[j], keys[i])
                        \/ (keys[j] = keys[i] /\ j < i)})

StableSort(seq, keys) ==
    [p \in 1..Len(seq) |->
        seq[CHOOSE i \in 1..Len(seq) : SortedPos(keys, i) = p]]

\* SortKey with the goal difference left ascending
SortKeyGdAscending(s) ==
    <<-s.points, s.goal_difference, -s.goals_for, -s.fair_play_points,
      TeamHash(s.team_name)>>

\* SortKey with the fair-play points left ascending
SortKeyFairPlayAscending(s) ==
    <<-s.points, -s.goal_difference, -s.goals_for, s.fair_play_points,
      TeamHash(s.team_name)>>

\* SortKey without the name digest: ties keep their input order
SortKeyNoHash(s) ==
    <<-s.points, -s.goal_difference, -s.goals_for, -s.fair_play_points, 0>>

SortKey(s) ==
    <<-s.points, -s.goal_difference, -s.goals_for, -s.fair_play_points,
      TeamHash(s.team_name)>>

\* SortStandings comparing the points only: level rows keep the order in
\* which they were created
SortStandingsPointsOnly(standings) ==
    StableSort(standings,
               [i \in 1..Len(standings) |-> <<-standings[i].points>>])

SortStandings(standings) ==
    StableSort(standings, [i \in 1..Len(standings) |-> SortKey(standings[i])])

\* AiRank with 0 in place of the sentinel for a team outside the map
AiRankZeroDefault(s, pr) ==
    IF pr.some /\ DOMAIN pr.val # {}
    THEN Get(pr.val, s.team_name, 0)
    ELSE AiSentinel

AiRank(s, pr) ==
    IF pr.some /\ DOMAIN pr.val # {}
    THEN Get(pr.val, s.team_name, AiSentinel)
    ELSE AiSentinel

\* SortKeyAi with the predicted rank ahead of the football criteria
SortKeyAiRankFirst(s, pr) ==
    <<AiRank(s, pr), -s.points, -s.goal_difference, -s.goals_for,
      -s.fair_play_points, TeamHash(s.team_name)>>

SortKeyAi(s, pr) ==
    <<-s.points, -s.goal_difference, -s.goals_for, -s.fair_play_points,
      AiRank(s, pr), TeamHash(s.team_name)>>

SortStandingsWithAi(standings, pr) ==
    StableSort(standings,
               [i \in 1..Len(standings) |-> SortKeyAi(standings[i], pr)])

-----------------------------------------------------------------------------
(* calculate_standings *)

Truthy(opt) == opt.some /\ opt.val # <<>>
TruthyDict(opt) == opt.some /\ DOMAIN opt.val # {}

HasTeam(dict, name) == \E i \in 1..Len(dict) : dict[i].team_name = name
TeamIndex(dict, name) == CHOOSE i \in 1..Len(dict) : dict[i].team_name = name

\* "if team_name not in standings_dict: standings_dict[team_name] = ..."
RECURSIVE AddTeams(_, _, _)
AddTeams(dict, names, group) ==
    IF names = <<>> THEN dict
    ELSE AddTeams(IF HasTeam(dict, Head(names)) THEN dict
                  ELSE Append(dict, GroupStanding(Head(names), group)),
                  Tail(names), group)

\* the names in the order the two initialisation loops visit them
RECURSIVE ResultNames(_)
ResultNames(rs) ==
    IF rs = <<>> THEN <<>>
    ELSE <<Head(rs).home_team, Head(rs).away_team>> \o ResultNames(Tail(rs))

CardNames(cs) == [i \in 1..Len(cs) |-> cs[i]["team_name"]]

\* InitTeams without the loop over the card records
InitTeamsResultsOnly(group, rs, cs) ==
    AddTeams(<<>>, ResultNames(rs), group)

InitTeams(group, rs, cs) ==
    LET fromResults == AddTeams(<<>>, ResultNames(rs), group)
    IN  IF Truthy(cs) THEN AddTeams(fromResults, CardNames(cs.val), group)
        ELSE fromResults

\* FoldResult with a tie credited to the home side only
FoldResultHomeDrawOnly(dict, match) ==
    LET h == TeamIndex(dict, match.home_team)
        a == TeamIndex(dict, match.away_team)
        hs == match.home_score
        as == match.away_score
        d1 == [dict EXCEPT ![h].played = @ + 1]
        d2 == [d1 EXCEPT ![a].played = @ + 1]
        d3 == [d2 EXCEPT ![h].goals_for = @ + hs]
        d4 == [d3 EXCEPT ![h].goals_against = @ + as]
        d5 == [d4 EXCEPT ![a].goals_for = @ + as]
        d6 == [d5 EXCEPT ![a].goals_against = @ + hs]
    IN  IF hs > as THEN
            LET w1 == [d6 EXCEPT ![h].won = @ + 1]
                w2 == [w1 EXCEPT ![h].points = @ + 3]
            IN  [w2 EXCEPT ![a].lost = @ + 1]
        ELSE IF as > hs THEN
            LET w1 == [d6 EXCEPT ![a].won = @ + 1]
                w2 == [w1 EXCEPT ![a].points = @ + 3]
            IN  [w2 EXCEPT ![h].lost = @ + 1]
        ELSE
            LET w1 == [d6 EXCEPT ![h].draw = @ + 1]
                w2 == [w1 EXCEPT ![h].points = @ + 1]
            IN  [w2 EXCEPT ![a].draw = @ + 1]

\* FoldResult that does not count the loss of the beaten side
FoldResultLossNotCounted(dict, match) ==
    LET h == TeamIndex(dict, match.home_team)
        a == TeamIndex(dict, match.away_team)
        hs == match.home_score
        as == match.away_score
        d1 == [dict EXCEPT ![h].played = @ + 1]
        d2 == [d1 EXCEPT ![a].played = @ + 1]
        d3 == [d2 EXCEPT ![h].goals_for = @ + hs]
        d4 == [d3 EXCEPT ![h].goals_against = @ + as]
        d5 == [d4 EXCEPT ![a].goals_for = @ + as]
        d6 == [d5 EXCEPT ![a].goals_against = @ + hs]
    IN  IF hs > as THEN
            LET w1 == [d6 EXCEPT ![h].won = @ + 1]
            IN  [w1 EXCEPT ![h].points = @ + 3]
        ELSE IF as > hs THEN
            LET w1 == [d6 EXCEPT ![a].won = @ + 1]
            IN  [w1 EXCEPT ![a].points = @ + 3]
        ELSE
            LET w1 == [d6 EXCEPT ![h].draw = @ + 1]
                w2 == [w1 EXCEPT ![h].points = @ + 1]
                w3 == [w2 EXCEPT ![a].draw = @ + 1]
            IN  [w3 EXCEPT ![a].points = @ + 1]

\* one iteration of "for match in results"; home and away may be one row
FoldResult(dict, match) ==
    LET h == TeamIndex(dict, match.home_team)
        a == TeamIndex(dict, match.away_team)
        hs == match.home_score
        as == match.away_score
        d1 == [dict EXCEPT ![h].played = @ + 1]
        d2 == [d1 EXCEPT ![a].played = @ + 1]
        d3 == [d2 EXCEPT ![h].goals_for = @ + hs]
        d4 == [d3 EXCEPT ![h].goals_against = @ + as]
        d5 == [d4 EXCEPT ![a].goals_for = @ + as]
        d6 == [d5 EXCEPT ![a].goals_against = @ + hs]
    IN  IF hs > as THEN
            LET w1 == [d6 EXCEPT ![h].won = @ + 1]
                w2 == [w1 EXCEPT ![h].points = @ + 3]
            IN  [w2 EXCEPT ![a].lost = @ + 1]
        ELSE IF as > hs THEN
            LET w1 == [d6 EXCEPT ![a].won = @ + 1]
                w2 == [w1 EXCEPT ![a].points = @ + 3]
            IN  [w2 EXCEPT ![h].lost = @ + 1]
        ELSE
            LET w1 == [d6 EXCEPT ![h].draw = @ + 1]
                w2 == [w1 EXCEPT ![h].points = @ + 1]
                w3 == [w2 EXCEPT ![a].draw = @ + 1]
            IN  [w3 EXCEPT ![a].points = @ + 1]

RECURSIVE FoldResults(_, _)
FoldResults(dict, rs) ==
    IF rs = <<>> THEN dict
    ELSE FoldResults(FoldResult(dict, Head(rs)), Tail(rs))

\* GoalDifference as goals against minus goals for
GoalDifferenceReversed(dict) ==
    [i \in 1..Len(dict) |->
        [dict[i] EXCEPT !.goal_difference =
            dict[i].goals_against - dict[i].goals_for]]

GoalDifference(dict) ==
    [i \in 1..Len(dict) |->
        [dict[i] EXCEPT !.goal_difference =
            dict[i].goals_for - dict[i].goals_against]]

\* FairPlay with a second yellow charged -3 on top of the yellow
FairPlaySecondYellowThree(card_data) ==
    (Get(card_data, "yellow", 0) * (-1))
    + (Get(card_data, "second_yellow", 0) * (-3))
    + (Get(card_data, "red", 0) * (-4))

FairPlay(card_data) ==
    (Get(card_data, "yellow", 0) * (-1))
    + (Get(card_data, "second_yellow", 0) * (-2))
    + (Get(card_data, "red", 0) * (-4))

\* ApplyCard adding the record to the points the row already has
ApplyCardAccumulate(dict, card_data) ==
    IF HasTeam(dict, card_data["team_name"])
    THEN [dict EXCEPT ![TeamIndex(dict, card_data["team_name"])]
                            .fair_play_points = @ + FairPlay(card_data)]
    ELSE dict

\* one iteration of "for card_data in cards"
ApplyCard(dict, card_data) ==
    IF HasTeam(dict, card_data["team_name"])
    THEN [dict EXCEPT ![TeamIndex(dict, card_data["team_name"])]
                            .fair_play_points = FairPlay(card_data)]
    ELSE dict

RECURSIVE ApplyCards(_, _)
ApplyCards(dict, cs) ==
    IF cs = <<>> THEN dict
    ELSE ApplyCards(ApplyCard(dict, Head(cs)), Tail(cs))

ProcessCards(dict, cs) ==
    IF Truthy(cs) THEN ApplyCards(dict, cs.val) ELSE dict

\* SortAndRank numbering the positions from 0
SortAndRankZeroBased(dict, pr) ==
    LET srt == IF TruthyDict(pr) THEN SortStandingsWithAi(dict, pr)
               ELSE SortStandings(dict)
    IN  [i \in 1..Len(srt) |->
            [srt[i] EXCEPT
                !.rank = i - 1,
                !.predicted_rank =
                    IF TruthyDict(pr) /\ srt[i].team_name \in DOMAIN pr.val
                    THEN pr.val[srt[i].team_name] ELSE @]]

\* SortAndRank that, without a map, takes the insertion position of a row as
\* its predicted rank
SortAndRankInsertionDefault(dict, pr) ==
    LET map == IF TruthyDict(pr) THEN pr
               ELSE Some([name \in {dict[i].team_name : i \in 1..Len(dict)}
                            |-> TeamIndex(dict, name)])
        srt == SortStandingsWithAi(dict, map)
    IN  [i \in 1..Len(srt) |->
            [srt[i] EXCEPT
                !.rank = i,
                !.predicted_rank =
                    IF TruthyDict(map) /\ srt[i].team_name \in DOMAIN map.val
                    THEN map.val[srt[i].team_name] ELSE @]]

\* lines 157-171: sort, then assign rank and predicted_rank by position
SortAndRank(dict, pr) ==
    LET srt == IF TruthyDict(pr) THEN SortStandingsWithAi(dict, pr)
               ELSE SortStandings(dict)
    IN  [i \in 1..Len(srt) |->
            [srt[i] EXCEPT
                !.rank = i,
                !.predicted_rank =
                    IF TruthyDict(pr) /\ srt[i].team_name \in DOMAIN pr.val
                    THEN pr.val[srt[i].team_name] ELSE @]]

CalculateStandings(group, rs, cs, pr) ==
    SortAndRank(
        ProcessCards(
            GoalDifference(FoldResults(InitTeams(group, rs, cs), rs)), cs),
        pr)

-----------------------------------------------------------------------------
(* Inputs of calculate_standings *)

Teams == {Mexico, Poland, TeamC}
Scores == 0..MaxScore

ResultSet ==
    [home_team : Teams, away_team : Teams,
     home_score : Scores, away_score : Scores]

CardKeys == {"yellow", "second_yellow", "red"}

\* a card dict for team t with the counts of the keys in ks present
CardDicts(ts, ks) ==
    {("team_name" :> t) @@ c : t \in ts, c \in [ks -> 0..MaxCardCount]}

\* one record, any subset of the count keys missing; TeamD plays no match
OneCardLists ==
    {<<c>> : c \in UNION {CardDicts(Teams \cup {TeamD}, ks) :
                            ks \in SUBSET CardKeys}}

\* two records with every count present, for the two teams of a mini league
TwoTeams == {Mexico, Poland}
TwoCardLists ==
    {<<c1, c2>> : c1 \in CardDicts(TwoTeams, CardKeys),
                  c2 \in CardDicts(TwoTeams, CardKeys)}
TwoTeamResults ==
    [home_team : TwoTeams, away_team : TwoTeams,
     home_score : Scores, away_score : Scores]

RankMaps == UNION {[ts -> 1..Cardinality(Teams)] : ts \in SUBSET Teams}

CalcIdle ==
    /\ group_letter = <<"A">>
    /\ results = <<>>
    /\ cards = None
    /\ predicted_ranks = None
    /\ standings_dict = <<>>
    /\ idx = 0
    /\ sorted_standings = <<>>

ThirdIdle ==
    /\ third_place_teams = <<>>
    /\ third_place = <<>>

BracketIdle ==
    /\ knockout_matches = <<>>
    /\ third_place_by_group = <<>>
    /\ resolved_matches = <<>>
    /\ resolved = [exc |-> "", ret |-> <<>>]

PredIdle ==
    /\ team_names = <<>>
    /\ group_predictions = <<>>
    /\ simulated_results = <<>>
    /\ predicted_standings = <<>>
    /\ predicted_map = <<>>

ConcIdle ==
    /\ invocations = <<>>
    /\ frames = <<>>
    /\ interleaved = FALSE

PipeIdle == groups = <<>>

InitCalc ==
    /\ pc = "calc_start"
    /\ group_letter = <<"A">>
    /\ \/ /\ results \in SeqUpTo(ResultSet, MaxResults)
          /\ cards = None
          /\ predicted_ranks = None
       \/ /\ results \in SeqUpTo(ResultSet, MaxCardResults)
          /\ cards \in {Some(cs) : cs \in {<<>>} \cup OneCardLists}
          /\ predicted_ranks = None
       \/ /\ results \in SeqUpTo(TwoTeamResults, MaxTwoCardResults)
          /\ cards \in {Some(cs) : cs \in TwoCardLists}
          /\ predicted_ranks = None
       \/ /\ results \in SeqUpTo(ResultSet, MaxAiResults)
          /\ cards = None
          /\ predicted_ranks \in {Some(m) : m \in RankMaps}
    /\ standings_dict = <<>>
    /\ idx = 0
    /\ sorted_standings = <<>>
    /\ all_standings = <<>>
    /\ ThirdIdle
    /\ BracketIdle
    /\ PredIdle
    /\ ConcIdle
    /\ PipeIdle

-----------------------------------------------------------------------------
(* calculate_standings, step by step *)

\* lines 88-106
CalcInitTeams ==
    /\ pc = "calc_start"
    /\ standings_dict' = InitTeams(group_letter, results, cards)
    /\ idx' = 1
    /\ pc' = "calc_fold"
    /\ UNCHANGED <<group_letter, results, cards, predicted_ranks,
                   sorted_standings>>
    /\ UNCHANGED bracketVars
    /\ UNCHANGED <<predVars, concVars, pipeVars>>

\* lines 109-134, one match
CalcFoldResult ==
    /\ pc = "calc_fold"
    /\ idx <= Len(results)
    /\ standings_dict' = FoldResult(standings_dict, results[idx])
    /\ idx' = idx + 1
    /\ UNCHANGED <<pc, group_letter, results, cards, predicted_ranks,
                   sorted_standings>>
    /\ UNCHANGED bracketVars
    /\ UNCHANGED <<predVars, concVars, pipeVars>>

\* lines 136-138
CalcGoalDifference ==
    /\ pc = "calc_fold"
    /\ idx > Len(results)
    /\ standings_dict' = GoalDifference(standings_dict)
    /\ pc' = "calc_cards"
    /\ UNCHANGED <<group_letter, results, cards, predicted_ranks, idx,
                   sorted_standings>>
    /\ UNCHANGED bracketVars
    /\ UNCHANGED <<predVars, concVars, pipeVars>>

\* lines 140-155
CalcProcessCards ==
    /\ pc = "calc_cards"
    /\ standings_dict' = ProcessCards(standings_dict, cards)
    /\ pc' = "calc_sort"
    /\ UNCHANGED <<group_letter, results, cards, predicted_ranks, idx,
                   sorted_standings>>
    /\ UNCHANGED bracketVars
    /\ UNCHANGED <<predVars, concVars, pipeVars>>

\* lines 157-171
CalcSortAndRank ==
    /\ pc = "calc_sort"
    /\ sorted_standings' = SortAndRank(standings_dict, predicted_ranks)
    /\ pc' = "calc_done"
    /\ UNCHANGED <<group_letter, results, cards, predicted_ranks,
                   standings_dict, idx>>
    /\ UNCHANGED bracketVars
    /\ UNCHANGED <<predVars, concVars, pipeVars>>

NextCalc ==
    \/ CalcInitTeams
    \/ CalcFoldResult
    \/ CalcGoalDifference
    \/ CalcProcessCards
    \/ CalcSortAndRank

Spec == InitCalc /\ [][NextCalc]_vars

-----------------------------------------------------------------------------
(* rank_third_place_teams *)

TopN == 8

\* the loop of lines 209-211 over all_standings.items()
\* ThirdPlaceTeams reading index 1, the second row, of each group
RECURSIVE ThirdPlaceTeamsSecondRow(_)
ThirdPlaceTeamsSecondRow(all) ==
    IF all = <<>> THEN <<>>
    ELSE (IF Len(Head(all).val) >= 3 THEN <<Head(all).val[2]>> ELSE <<>>)
         \o ThirdPlaceTeamsSecondRow(Tail(all))

RECURSIVE ThirdPlaceTeams(_)
ThirdPlaceTeams(all) ==
    IF all = <<>> THEN <<>>
    ELSE (IF Len(Head(all).val) >= 3 THEN <<Head(all).val[3]>> ELSE <<>>)
         \o ThirdPlaceTeams(Tail(all))

\* TakeTop without the slice
TakeTopAll(sorted_third_place) == sorted_third_place

\* TakeTop keeping the tail of the list, [-8:]
TakeTopLast(sorted_third_place) ==
    SubSeq(sorted_third_place,
           Len(sorted_third_place) - Min(TopN, Len(sorted_third_place)) + 1,
           Len(sorted_third_place))

\* TakeTop that numbers the kept rows 1..N
TakeTopRenumbered(sorted_third_place) ==
    [i \in 1..Min(TopN, Len(sorted_third_place)) |->
        [sorted_third_place[i] EXCEPT !.rank = i]]

\* sorted_third_place[:8]
TakeTop(sorted_third_place) ==
    SubSeq(sorted_third_place, 1, Min(TopN, Len(sorted_third_place)))

\* the input list after list.sort(), which sorts in place
ListAfterSortInPlace(standings) == SortStandings(standings)

\* lines 183-202: the input list after sorted(standings, key=...), which
\* builds a new list
ListAfterSort(standings) == standings

RankThirdPlaceTeams(all) == TakeTop(SortStandings(ThirdPlaceTeams(all)))

(* Inputs of rank_third_place_teams: the first n groups, inserted in        *)
(* ascending or descending letter order.  A group list is short (two rows)  *)
(* or has three rows; the third row has the statistics of the candidate    *)
(* table of tests/test_fifa_engine.py or a common record that ties groups.  *)

\* points, goal difference, goals for, fair play of "Team A3" .. "Team L3"
ThirdTable ==
    << <<4, 1, 3, 0>>, <<4, 1, 2, 0>>, <<4, 0, 3, 0>>, <<3, 2, 4, 0>>,
       <<3, 1, 3, 0>>, <<3, 1, 2, 0>>, <<3, 1, 2, -1>>, <<3, 1, 2, -4>>,
       <<2, 0, 2, 0>>, <<1, -1, 1, 0>>, <<1, -2, 0, 0>>, <<0, -3, 0, 0>> >>
TiedStats == <<3, 1, 2, -1>>

\* a row of a finished group (three matches played) with the given statistics
RankedRow(name, g, rank, st) ==
    [GroupStanding(name, g) EXCEPT
        !.rank = rank, !.played = 3,
        !.won = st[1] \div 3, !.draw = st[1] % 3,
        !.lost = 3 - (st[1] \div 3) - (st[1] % 3),
        !.goals_for = st[3], !.goals_against = st[3] - st[2],
        !.goal_difference = st[2], !.points = st[1],
        !.fair_play_points = st[4]]

GroupList(k, choice) ==
    LET g == AllGroupLetters[k]
        top == << RankedRow(GroupTeam(g, "1"), g, 1, <<7, 3, 5, 0>>),
                  RankedRow(GroupTeam(g, "2"), g, 2, <<5, 2, 4, 0>>) >>
    IN  CASE choice = "short" -> top
          [] choice = "table" ->
                Append(top, RankedRow(GroupTeam(g, "3"), g, 3, ThirdTable[k]))
          [] choice = "tied" ->
                Append(top, RankedRow(GroupTeam(g, "3"), g, 3, TiedStats))

GroupChoices == {"short", "table", "tied"}

\* the first n groups in ascending (up) or descending letter order
StandingsMap(n, ch, up) ==
    [i \in 1..n |->
        LET k == IF up THEN i ELSE n + 1 - i
        IN  [key |-> AllGroupLetters[k], val |-> GroupList(k, ch[k])]]

InitThird ==
    /\ pc = "third_start"
    /\ CalcIdle
    /\ \E n \in 0..MaxGroups : \E ch \in [1..n -> GroupChoices] :
         \E up \in BOOLEAN :
            all_standings = StandingsMap(n, ch, up)
    /\ ThirdIdle
    /\ BracketIdle
    /\ PredIdle
    /\ ConcIdle
    /\ PipeIdle

\* lines 208-211
ThirdCollect ==
    /\ pc = "third_start"
    /\ third_place_teams' = ThirdPlaceTeams(all_standings)
    /\ pc' = "third_sort"
    /\ UNCHANGED <<all_standings, third_place, knockout_matches,
                   third_place_by_group, resolved_matches, resolved>>
    /\ UNCHANGED calcVars
    /\ UNCHANGED <<predVars, concVars, pipeVars>>

\* lines 213-214
ThirdSortTop ==
    /\ pc = "third_sort"
    /\ third_place' = TakeTop(SortStandings(third_place_teams))
    /\ third_place_teams' = ListAfterSort(third_place_teams)
    /\ pc' = "third_done"
    /\ UNCHANGED <<all_standings, knockout_matches,
                   third_place_by_group, resolved_matches, resolved>>
    /\ UNCHANGED calcVars
    /\ UNCHANGED <<predVars, concVars, pipeVars>>

NextThird ==
    \/ ThirdCollect
    \/ ThirdSortTop

SpecThird == InitThird /\ [][NextThird]_vars

\* calculate_standings and rank_third_place_teams, the two users of the sort
SpecSort == (InitCalc \/ InitThird) /\ [][NextCalc \/ NextThird]_vars

-----------------------------------------------------------------------------
(* Python str operations on character sequences *)

\* StartsWith that does not compare the last character of the prefix
StartsWithLoose(s, prefix) ==
    Len(s) >= Len(prefix) - 1
    /\ SubSeq(s, 1, Len(prefix) - 1) = SubSeq(prefix, 1, Len(prefix) - 1)

StartsWith(s, prefix) ==
    Len(s) >= Len(prefix) /\ SubSeq(s, 1, Len(prefix)) = prefix

\* s.replace(old, ""): every non-overlapping occurrence, left to right
RECURSIVE Remove(_, _)
Remove(s, old) ==
    IF Len(s) < Len(old) THEN s
    ELSE IF SubSeq(s, 1, Len(old)) = old
         THEN Remove(SubSeq(s, Len(old) + 1, Len(s)), old)
         ELSE <<Head(s)>> \o Remove(Tail(s), old)

Whitespace == {" ", "\t", "\n", "\r"}

RECURSIVE LStrip(_)
LStrip(s) ==
    IF s # <<>> /\ Head(s) \in Whitespace THEN LStrip(Tail(s)) ELSE s

Strip(s) == Reverse(LStrip(Reverse(LStrip(s))))

\* s.split(sep) for a one-character separator
RECURSIVE Split(_, _)
Split(s, sep) ==
    IF \A i \in 1..Len(s) : s[i] # sep THEN <<s>>
    ELSE LET i == CHOOSE k \in 1..Len(s) :
                    s[k] = sep /\ \A j \in 1..(k - 1) : s[j] # sep
         IN  <<SubSeq(s, 1, i - 1)>> \o Split(SubSeq(s, i + 1, Len(s)), sep)

WinnerPrefix == <<"W", "i", "n", "n", "e", "r", " ">>
RunnerUpPrefix == <<"R", "u", "n", "n", "e", "r", "-", "u", "p", " ">>
ThirdPrefix == <<"3", "r", "d", " ", "P", "l", "a", "c", "e", " ">>

-----------------------------------------------------------------------------
(* resolve_knockout_bracket and _resolve_label *)

Ok(v) == [exc |-> "", ret |-> v]
Raise(e) == [exc |-> e, ret |-> <<>>]

\* Python None stored where a row is expected: it has no attributes
PyNone == [none |-> TRUE]
HasAttr(x, a) == a \in DOMAIN x

HasKey(dict, k) == \E i \in 1..Len(dict) : dict[i].key = k
Lookup(dict, k) == dict[CHOOSE i \in 1..Len(dict) : dict[i].key = k].val

\* lines 233-235: a later qualifier of the same group replaces an earlier one
ThirdPlaceByGroup(qualifiers) ==
    IF \E i \in 1..Len(qualifiers) :
            ~(HasAttr(qualifiers[i], "group_letter")
              /\ HasAttr(qualifiers[i], "team_name"))
    THEN Raise("AttributeError")
    ELSE Ok([g \in {qualifiers[i].group_letter : i \in 1..Len(qualifiers)} |->
                qualifiers[CHOOSE i \in 1..Len(qualifiers) :
                    /\ qualifiers[i].group_letter = g
                    /\ \A j \in (i + 1)..Len(qualifiers) :
                            qualifiers[j].group_letter # g].team_name])

\* ResolveRank that waits for a match: "TBD" for a row that has not played
ResolveRankPlayedOnly(group, standings, position) ==
    IF HasKey(standings, group) /\ Len(Lookup(standings, group)) > position
    THEN LET row == Lookup(standings, group)[position + 1]
         IN  IF ~HasAttr(row, "team_name") THEN Raise("AttributeError")
             ELSE IF row.played > 0 THEN Ok(row.team_name)
             ELSE Ok(TBD)
    ELSE Ok(TBD)

\* lines 270-272 and 275-277 with position 0 and 1
ResolveRank(group, standings, position) ==
    IF HasKey(standings, group) /\ Len(Lookup(standings, group)) > position
    THEN LET row == Lookup(standings, group)[position + 1]
         IN  IF HasAttr(row, "team_name") THEN Ok(row.team_name)
             ELSE Raise("AttributeError")
    ELSE Ok(TBD)

\* ResolveWinner reading position 1
ResolveWinnerSecond(label, standings) ==
    ResolveRank(Strip(Remove(label, WinnerPrefix)), standings, 1)

\* lines 269-272
ResolveWinner(label, standings) ==
    ResolveRank(Strip(Remove(label, WinnerPrefix)), standings, 0)

\* lines 274-277
ResolveRunnerUp(label, standings) ==
    ResolveRank(Strip(Remove(label, RunnerUpPrefix)), standings, 1)

\* FirstQualified without the early return: the last qualified option wins
RECURSIVE LastQualified(_, _)
LastQualified(options, by_group) ==
    IF options = <<>> THEN TBD
    ELSE LET rest == LastQualified(Tail(options), by_group)
         IN  IF rest # TBD THEN rest
             ELSE IF Strip(Head(options)) \in DOMAIN by_group
                  THEN by_group[Strip(Head(options))]
                  ELSE TBD

\* lines 281-285
RECURSIVE FirstQualified(_, _)
FirstQualified(options, by_group) ==
    IF options = <<>> THEN TBD
    ELSE IF Strip(Head(options)) \in DOMAIN by_group
         THEN by_group[Strip(Head(options))]
         ELSE FirstQualified(Tail(options), by_group)

\* lines 280-285
ResolveThird(label, by_group) ==
    Ok(FirstQualified(Split(Remove(label, ThirdPrefix), "/"), by_group))

\* lines 287-293: only KeyError and IndexError are converted to "TBD"
Except(outcome) ==
    IF outcome.exc \in {"KeyError", "IndexError"} THEN Ok(TBD) ELSE outcome

ResolveLabel(label, standings, by_group) ==
    Except(
        IF StartsWith(label, WinnerPrefix)
            THEN ResolveWinner(label, standings)
        ELSE IF StartsWith(label, RunnerUpPrefix)
            THEN ResolveRunnerUp(label, standings)
        ELSE IF StartsWith(label, ThirdPrefix)
            THEN ResolveThird(label, by_group)
        ELSE Ok(label))

DefaultStage == 2

\* ResolveMatch storing the resolved names in the label fields
ResolveMatchLabelsOverwritten(match, standings, by_group) ==
    LET home == ResolveLabel(match["home_team_label"], standings, by_group)
        away == ResolveLabel(match["away_team_label"], standings, by_group)
    IN  IF home.exc # "" THEN home
        ELSE IF away.exc # "" THEN away
        ELSE Ok([match_number |-> match["match_number"],
                 stage_id |-> Get(match, "stage_id", DefaultStage),
                 home_team_name |-> home.ret,
                 away_team_name |-> away.ret,
                 venue |-> match["venue"],
                 kickoff_at |-> match["kickoff_at"],
                 home_team_label |-> home.ret,
                 away_team_label |-> away.ret])

\* lines 238-256: one iteration of "for match in knockout_matches"
ResolveMatch(match, standings, by_group) ==
    LET home == ResolveLabel(match["home_team_label"], standings, by_group)
        away == ResolveLabel(match["away_team_label"], standings, by_group)
    IN  IF home.exc # "" THEN home
        ELSE IF away.exc # "" THEN away
        ELSE Ok([match_number |-> match["match_number"],
                 stage_id |-> Get(match, "stage_id", DefaultStage),
                 home_team_name |-> home.ret,
                 away_team_name |-> away.ret,
                 venue |-> match["venue"],
                 kickoff_at |-> match["kickoff_at"],
                 home_team_label |-> match["home_team_label"],
                 away_team_label |-> match["away_team_label"]])

\* SlotQualifiers without the qualifiers whose team already fills a slot
SlotQualifiersUnused(by_group, resolved_so_far) ==
    LET used == {resolved_so_far[m].home_team_name :
                    m \in 1..Len(resolved_so_far)}
                \cup {resolved_so_far[m].away_team_name :
                        m \in 1..Len(resolved_so_far)}
    IN  [g \in {h \in DOMAIN by_group : by_group[h] \notin used} |->
            by_group[g]]

\* lines 238-243: every slot is resolved against the whole
\* third_place_by_group, whatever the matches resolved before it
SlotQualifiers(by_group, resolved_so_far) == by_group

RECURSIVE ResolveMatches(_, _, _, _)
ResolveMatches(acc, matches, standings, by_group) ==
    IF matches = <<>> THEN Ok(acc)
    ELSE LET m == ResolveMatch(Head(matches), standings,
                               SlotQualifiers(by_group, acc))
         IN  IF m.exc # "" THEN m
             ELSE ResolveMatches(Append(acc, m.ret), Tail(matches),
                                 standings, by_group)

ResolveKnockoutBracket(standings, qualifiers, matches) ==
    LET by_group == ThirdPlaceByGroup(qualifiers)
    IN  IF by_group.exc # "" THEN by_group
        ELSE ResolveMatches(<<>>, matches, standings, by_group.ret)

-----------------------------------------------------------------------------
(* Inputs of resolve_knockout_bracket *)

\* "Winner <G>", "Runner-up <G>", "3rd Place <G1>/<G2>/..."
WinnerLabel(g) == WinnerPrefix \o g
RunnerUpLabel(g) == RunnerUpPrefix \o g
RECURSIVE JoinSlash(_)
JoinSlash(gs) ==
    IF Len(gs) = 1 THEN gs[1] ELSE gs[1] \o <<"/">> \o JoinSlash(Tail(gs))
ThirdLabel(gs) == ThirdPrefix \o JoinSlash(gs)

GA == AllGroupLetters[1]
GB == AllGroupLetters[2]
GC == AllGroupLetters[3]
GD == AllGroupLetters[4]
GE == AllGroupLetters[5]
GF == AllGroupLetters[6]

KnockoutMatch(n, home, away) ==
    [match_number |-> n, home_team_label |-> home, away_team_label |-> away,
     venue |-> "venue", kickoff_at |-> "kickoff", stage_id |-> 2]

\* the fixtures a knockout match list is drawn from; venue and kickoff are
\* opaque values that are only copied
Fixtures ==
    { KnockoutMatch(73, WinnerLabel(GA), ThirdLabel(<<GC, GD, GE>>)),
      KnockoutMatch(74, RunnerUpLabel(GA), RunnerUpLabel(GB)),
      KnockoutMatch(75, WinnerLabel(GB), ThirdLabel(<<GE, GD>>)),
      KnockoutMatch(76, ThirdLabel(<<GF>>), RunnerUpLabel(GC)),
      \* a literal team name and a prefix without its trailing space
      [match_number |-> 77, home_team_label |-> Mexico,
       away_team_label |-> <<"W", "i", "n", "n", "e", "r">>,
       venue |-> "venue", kickoff_at |-> "kickoff"],
      \* surrounding blanks: "Winner  A " and "3rd Place D / C"
      KnockoutMatch(78, WinnerPrefix \o <<" ">> \o GA \o <<" ">>,
                    ThirdPrefix \o GD \o <<" ", "/", " ">> \o GC),
      \* a leading blank and a lower-case prefix: " Winner A", "winner B"
      [match_number |-> 79,
       home_team_label |-> <<" ">> \o WinnerLabel(GA),
       away_team_label |-> <<"w">> \o Tail(WinnerLabel(GB)),
       venue |-> "stadium", kickoff_at |-> "later", stage_id |-> 3] }

BracketGroupChoices == {"absent", "empty", "one", "short", "table", "mock"}

BracketGroupList(k, choice) ==
    CASE choice = "empty" -> <<>>
      [] choice = "one" -> SubSeq(GroupList(k, "short"), 1, 1)
      [] choice = "mock" -> <<PyNone, PyNone, GroupList(k, "table")[3]>>
      [] OTHER -> GroupList(k, choice)

\* groups A and B, each absent or with one of the lists above
BracketStandings(chA, chB) ==
    (IF chA = "absent" THEN <<>>
     ELSE <<[key |-> GA, val |-> BracketGroupList(1, chA)]>>)
    \o
    (IF chB = "absent" THEN <<>>
     ELSE <<[key |-> GB, val |-> BracketGroupList(2, chB)]>>)

\* third rows of groups C, D and E, and another team for group D
QualifierRows ==
    { GroupList(3, "table")[3], GroupList(4, "table")[3],
      GroupList(5, "table")[3], RankedRow(TeamD, GD, 3, TiedStats) }

InitBracket ==
    /\ pc = "bracket_start"
    /\ CalcIdle
    /\ PredIdle
    /\ ConcIdle
    /\ PipeIdle
    /\ \E chA \in BracketGroupChoices : \E chB \in {"absent", "short"} :
            all_standings = BracketStandings(chA, chB)
    /\ third_place_teams = <<>>
    /\ third_place \in SeqUpTo(QualifierRows, MaxQualifiers)
    /\ knockout_matches \in SeqUpTo(Fixtures, MaxMatches)
    /\ third_place_by_group = <<>>
    /\ resolved_matches = <<>>
    /\ resolved = [exc |-> "", ret |-> <<>>]

bracketFrame == <<all_standings, third_place_teams, third_place,
                  knockout_matches>>

\* lines 223-235
BracketThirdMap ==
    /\ pc = "bracket_start"
    /\ LET by_group == ThirdPlaceByGroup(third_place)
       IN  IF by_group.exc # ""
           THEN /\ resolved' = by_group
                /\ pc' = "bracket_raised"
                /\ UNCHANGED third_place_by_group
           ELSE /\ third_place_by_group' = by_group.ret
                /\ pc' = "bracket_loop"
                /\ UNCHANGED resolved
    /\ UNCHANGED resolved_matches
    /\ UNCHANGED bracketFrame
    /\ UNCHANGED calcVars
    /\ UNCHANGED <<predVars, concVars, pipeVars>>

\* lines 237-256, one match
BracketResolveMatch ==
    /\ pc = "bracket_loop"
    /\ Len(resolved_matches) < Len(knockout_matches)
    /\ LET m == ResolveMatch(knockout_matches[Len(resolved_matches) + 1],
                             all_standings,
                             SlotQualifiers(third_place_by_group,
                                            resolved_matches))
       IN  IF m.exc # ""
           THEN /\ resolved' = m
                /\ pc' = "bracket_raised"
                /\ UNCHANGED resolved_matches
           ELSE /\ resolved_matches' = Append(resolved_matches, m.ret)
                /\ UNCHANGED <<pc, resolved>>
    /\ UNCHANGED third_place_by_group
    /\ UNCHANGED bracketFrame
    /\ UNCHANGED calcVars
    /\ UNCHANGED <<predVars, concVars, pipeVars>>

\* line 258
BracketReturn ==
    /\ pc = "bracket_loop"
    /\ Len(resolved_matches) = Len(knockout_matches)
    /\ resolved' = Ok(resolved_matches)
    /\ pc' = "bracket_done"
    /\ UNCHANGED <<third_place_by_group, resolved_matches>>
    /\ UNCHANGED bracketFrame
    /\ UNCHANGED calcVars
    /\ UNCHANGED <<predVars, concVars, pipeVars>>

NextBracket ==
    \/ BracketThirdMap
    \/ BracketResolveMatch
    \/ BracketReturn

SpecBracket == InitBracket /\ [][NextBracket]_vars

\* one call of any of the three operations
SpecEngine ==
    (InitCalc \/ InitThird \/ InitBracket)
    /\ [][NextCalc \/ NextThird \/ NextBracket]_vars

-----------------------------------------------------------------------------
(* calculate_predicted_standings *)

MaxPredictions == 2

\* the default of pred.get("predicted_home_score", 0)
DefaultScore == 0

\* lines 323-326: the four reads of one prediction
SimulatedResult(pred) ==
    [home_team |-> Get(pred, "home_team_name", PyNone),
     away_team |-> Get(pred, "away_team_name", PyNone),
     home_score |-> Get(pred, "predicted_home_score", DefaultScore),
     away_score |-> Get(pred, "predicted_away_score", DefaultScore)]

\* FilterPredictions keeping a prediction when either team is in team_names
RECURSIVE FilterPredictionsEitherTeam(_, _)
FilterPredictionsEitherTeam(names, preds) ==
    IF preds = <<>> THEN <<>>
    ELSE LET r == SimulatedResult(Head(preds))
         IN  (IF r.home_team \in Range(names) \/ r.away_team \in Range(names)
              THEN <<r>> ELSE <<>>)
             \o FilterPredictionsEitherTeam(names, Tail(preds))

\* lines 320-339: "for pred in group_predictions"
RECURSIVE FilterPredictions(_, _)
FilterPredictions(names, preds) ==
    IF preds = <<>> THEN <<>>
    ELSE LET r == SimulatedResult(Head(preds))
         IN  (IF r.home_team \in Range(names) /\ r.away_team \in Range(names)
              THEN <<r>> ELSE <<>>)
             \o FilterPredictions(names, Tail(preds))

\* line 353: {standing.team_name: standing.rank for standing in ...}
RankMap(rows) ==
    [name \in {rows[i].team_name : i \in 1..Len(rows)} |->
        rows[CHOOSE i \in 1..Len(rows) :
                /\ rows[i].team_name = name
                /\ \A j \in (i + 1)..Len(rows) : rows[j].team_name # name].rank]

\* SimulatedStandings with a row for every team of team_names
SimulatedStandingsWithRoster(group, names, simulated) ==
    SortAndRank(
        GoalDifference(
            FoldResults(AddTeams(InitTeams(group, simulated, None),
                                 names, group),
                        simulated)),
        None)

\* lines 346-350: the call of calculate_standings; team_names is not passed
SimulatedStandings(group, names, simulated) ==
    CalculateStandings(group, simulated, None, None)

\* the whole call
CalculatePredictedStandings(group, names, preds) ==
    LET simulated == FilterPredictions(names, preds)
    IN  IF simulated = <<>> THEN <<>>
        ELSE RankMap(SimulatedStandings(group, names, simulated))

(* Inputs: a group of two or of three teams, and predictions between any    *)
(* two of the three teams with either score key present or missing.         *)

TeamNameLists == {<<Mexico, Poland>>, <<Mexico, Poland, TeamC>>}

ScoreKeys == {"predicted_home_score", "predicted_away_score"}

Prediction(home, away, scores) ==
    [k \in {"home_team_name", "away_team_name"} \cup DOMAIN scores |->
        IF k = "home_team_name" THEN home
        ELSE IF k = "away_team_name" THEN away
        ELSE scores[k]]

PredictionSet ==
    UNION {{Prediction(home, away, scores) :
                away \in Teams \ {home},
                scores \in UNION {[ks -> Scores] : ks \in SUBSET ScoreKeys}} :
           home \in Teams}

InitPredicted ==
    /\ pc = "pred_start"
    /\ CalcIdle
    /\ all_standings = <<>>
    /\ ThirdIdle
    /\ BracketIdle
    /\ ConcIdle
    /\ PipeIdle
    /\ team_names \in TeamNameLists
    /\ group_predictions \in SeqUpTo(PredictionSet, MaxPredictions)
    /\ simulated_results = <<>>
    /\ predicted_standings = <<>>
    /\ predicted_map = <<>>

predFrame == <<calcVars, bracketVars, concVars, pipeVars, team_names,
               group_predictions>>

\* lines 320-339
PredSimulate ==
    /\ pc = "pred_start"
    /\ simulated_results' = FilterPredictions(team_names, group_predictions)
    /\ pc' = "pred_filtered"
    /\ UNCHANGED <<predicted_standings, predicted_map>>
    /\ UNCHANGED predFrame

\* lines 342-344
PredReturnEmpty ==
    /\ pc = "pred_filtered"
    /\ simulated_results = <<>>
    /\ predicted_map' = <<>>
    /\ pc' = "pred_done"
    /\ UNCHANGED <<simulated_results, predicted_standings>>
    /\ UNCHANGED predFrame

\* lines 346-350
PredCalculate ==
    /\ pc = "pred_filtered"
    /\ simulated_results # <<>>
    /\ predicted_standings' =
            SimulatedStandings(group_letter, team_names, simulated_results)
    /\ pc' = "pred_ranked"
    /\ UNCHANGED <<simulated_results, predicted_map>>
    /\ UNCHANGED predFrame

\* line 353
PredReturn ==
    /\ pc = "pred_ranked"
    /\ predicted_map' = RankMap(predicted_standings)
    /\ pc' = "pred_done"
    /\ UNCHANGED <<simulated_results, predicted_standings>>
    /\ UNCHANGED predFrame

NextPredicted ==
    \/ PredSimulate
    \/ PredReturnEmpty
    \/ PredCalculate
    \/ PredReturn

SpecPredicted == InitPredicted /\ [][NextPredicted]_vars

-----------------------------------------------------------------------------
(* Several calls on one FifaEngine, their steps interleaved.  The class has *)
(* no attribute: every name a method assigns is a local of the call.        *)

MaxInvocations == 2
MaxConcResults == 1
MaxConcGroups == 1

Invocations == 1..MaxInvocations

\* one frame of locals for all the calls, as attributes of self would be
FrameShared(p) == 1

\* the frame that holds the locals of call p
FrameOf(p) == p

ConcResultSet ==
    [home_team : {Mexico}, away_team : {Poland},
     home_score : Scores, away_score : Scores]

ConcResultLists == SeqUpTo(ConcResultSet, MaxConcResults) \ {<<>>}

ConcStandingsMaps ==
    UNION {{StandingsMap(n, ch, TRUE) : ch \in [1..n -> GroupChoices]} :
           n \in 0..MaxConcGroups}

EmptyFrame == [standings_dict |-> <<>>, idx |-> 0, third_place_teams |-> <<>>]

InitConcurrent ==
    /\ pc = "concurrent"
    /\ CalcIdle
    /\ all_standings = <<>>
    /\ ThirdIdle
    /\ BracketIdle
    /\ PredIdle
    /\ PipeIdle
    /\ \E ops \in [Invocations -> {"calc", "third"}] :
        \E rs \in [Invocations -> ConcResultLists] :
         \E gs \in [Invocations -> ConcStandingsMaps] :
            invocations =
                [p \in Invocations |->
                    [op |-> ops[p],
                     pc |-> IF ops[p] = "calc" THEN "calc_start"
                            ELSE "third_start",
                     arg |-> IF ops[p] = "calc" THEN rs[p] ELSE gs[p],
                     ret |-> <<>>]]
    /\ frames = [f \in Invocations |-> EmptyFrame]
    /\ interleaved = FALSE

Running(q) ==
    invocations[q].pc \notin
        {"calc_start", "third_start", "calc_done", "third_done"}

\* what every step of call p leaves alone, and the history it records
ConcStep(p) ==
    /\ interleaved' = (interleaved \/ \E q \in Invocations \ {p} : Running(q))
    /\ UNCHANGED <<pc, calcVars, bracketVars, predVars, pipeVars>>

\* lines 88-106, in call p
ConcInitTeams(p) ==
    /\ invocations[p].pc = "calc_start"
    /\ frames' = [frames EXCEPT
            ![FrameOf(p)].standings_dict =
                InitTeams(group_letter, invocations[p].arg, None),
            ![FrameOf(p)].idx = 1]
    /\ invocations' = [invocations EXCEPT ![p].pc = "calc_fold"]
    /\ ConcStep(p)

\* lines 109-134, one match, in call p
ConcFoldResult(p) ==
    /\ invocations[p].pc = "calc_fold"
    /\ frames[FrameOf(p)].idx <= Len(invocations[p].arg)
    /\ frames' = [frames EXCEPT
            ![FrameOf(p)].standings_dict =
                FoldResult(@, invocations[p].arg[frames[FrameOf(p)].idx]),
            ![FrameOf(p)].idx = @ + 1]
    /\ UNCHANGED invocations
    /\ ConcStep(p)

\* lines 136-138, in call p
ConcGoalDifference(p) ==
    /\ invocations[p].pc = "calc_fold"
    /\ frames[FrameOf(p)].idx > Len(invocations[p].arg)
    /\ frames' = [frames EXCEPT
            ![FrameOf(p)].standings_dict = GoalDifference(@)]
    /\ invocations' = [invocations EXCEPT ![p].pc = "calc_cards"]
    /\ ConcStep(p)

\* lines 140-155, in call p (cards is None)
ConcProcessCards(p) ==
    /\ invocations[p].pc = "calc_cards"
    /\ frames' = [frames EXCEPT
            ![FrameOf(p)].standings_dict = ProcessCards(@, None)]
    /\ invocations' = [invocations EXCEPT ![p].pc = "calc_sort"]
    /\ ConcStep(p)

\* lines 157-171, in call p (predicted_ranks is None)
ConcSortAndRank(p) ==
    /\ invocations[p].pc = "calc_sort"
    /\ invocations' = [invocations EXCEPT
            ![p].pc = "calc_done",
            ![p].ret = SortAndRank(frames[FrameOf(p)].standings_dict, None)]
    /\ UNCHANGED frames
    /\ ConcStep(p)

\* lines 208-211, in call p
ConcThirdCollect(p) ==
    /\ invocations[p].pc = "third_start"
    /\ frames' = [frames EXCEPT
            ![FrameOf(p)].third_place_teams =
                ThirdPlaceTeams(invocations[p].arg)]
    /\ invocations' = [invocations EXCEPT ![p].pc = "third_sort"]
    /\ ConcStep(p)

\* lines 213-214, in call p
ConcThirdSortTop(p) ==
    /\ invocations[p].pc = "third_sort"
    /\ invocations' = [invocations EXCEPT
            ![p].pc = "third_done",
            ![p].ret =
                TakeTop(SortStandings(frames[FrameOf(p)].third_place_teams))]
    /\ UNCHANGED frames
    /\ ConcStep(p)

NextConcurrent ==
    \E p \in Invocations :
        \/ ConcInitTeams(p)
        \/ ConcFoldResult(p)
        \/ ConcGoalDifference(p)
        \/ ConcProcessCards(p)
        \/ ConcSortAndRank(p)
        \/ ConcThirdCollect(p)
        \/ ConcThirdSortTop(p)

SpecConcurrent == InitConcurrent /\ [][NextConcurrent]_vars

-----------------------------------------------------------------------------
(* initialize_group_standings, and steps 2 to 4 of update_tournament        *)
(* (src/backend/src/main.py): every group is initialised from its team      *)
(* names, then the third-placed teams are ranked, then the bracket is       *)
(* resolved.                                                                *)

MaxPipelineGroups == 9
MaxPipelineMatches == 1

\* InitializeGroupStandings that leaves the rank of the rows unset
InitializeGroupStandingsUnranked(group, names) ==
    [i \in 1..Len(names) |-> GroupStanding(names[i], group)]

\* fifa_engine.py lines 49-67
InitializeGroupStandings(group, names) ==
    [i \in 1..Len(names) |-> [GroupStanding(names[i], group) EXCEPT !.rank = i]]

(* Inputs: the first n groups in letter order; a group has one to three     *)
(* teams "Team <G>1" .. "Team <G>3" (a group exists once it has a team);    *)
(* only groups A and B may have a single team.                              *)

RosterSizes(k) == IF k <= 2 THEN {1, 2, 3} ELSE {2, 3}

Roster(k, size) ==
    [i \in 1..size |->
        GroupTeam(AllGroupLetters[k], <<"1", "2", "3">>[i])]

GI == AllGroupLetters[9]

\* the knockout matches built from "<home> vs <away>" labels
PipelineFixtures ==
    { KnockoutMatch(73, WinnerLabel(GA), ThirdLabel(<<GC, GD, GE>>)),
      KnockoutMatch(74, RunnerUpLabel(GA), RunnerUpLabel(GB)),
      KnockoutMatch(75, WinnerLabel(GB), ThirdLabel(<<GE, GD>>)),
      KnockoutMatch(76, ThirdLabel(<<GF>>), RunnerUpLabel(GC)),
      KnockoutMatch(80, ThirdLabel(<<GI>>), WinnerLabel(GC)) }

InitPipeline ==
    /\ pc = "pipe_groups"
    /\ CalcIdle
    /\ ThirdIdle
    /\ PredIdle
    /\ ConcIdle
    /\ \E n \in 0..MaxPipelineGroups :
        \E sizes \in [1..n -> {1, 2, 3}] :
            /\ \A k \in 1..n : sizes[k] \in RosterSizes(k)
            /\ groups = [k \in 1..n |->
                            [key |-> AllGroupLetters[k],
                             val |-> Roster(k, sizes[k])]]
    /\ all_standings = <<>>
    /\ knockout_matches \in SeqUpTo(PipelineFixtures, MaxPipelineMatches)
    /\ third_place_by_group = <<>>
    /\ resolved_matches = <<>>
    /\ resolved = [exc |-> "", ret |-> <<>>]

\* main.py lines 239-245: one iteration of "for group_letter, group_teams"
PipeInitializeGroup ==
    /\ pc = "pipe_groups"
    /\ Len(all_standings) < Len(groups)
    /\ LET group == groups[Len(all_standings) + 1]
       IN  all_standings' =
                Append(all_standings,
                       [key |-> group.key,
                        val |-> InitializeGroupStandings(group.key,
                                                         group.val)])
    /\ UNCHANGED <<pc, third_place_teams, third_place, knockout_matches,
                   third_place_by_group, resolved_matches, resolved>>
    /\ UNCHANGED <<calcVars, predVars, concVars, pipeVars>>

\* main.py lines 257-261; lines 310-313 then call resolve_knockout_bracket
PipeRankThirdPlace ==
    /\ pc = "pipe_groups"
    /\ Len(all_standings) = Len(groups)
    /\ third_place' = RankThirdPlaceTeams(all_standings)
    /\ pc' = "bracket_start"
    /\ UNCHANGED <<all_standings, third_place_teams, knockout_matches,
                   third_place_by_group, resolved_matches, resolved>>
    /\ UNCHANGED <<calcVars, predVars, concVars, pipeVars>>

NextPipeline ==
    \/ PipeInitializeGroup
    \/ PipeRankThirdPlace
    \/ BracketThirdMap
    \/ BracketResolveMatch
    \/ BracketReturn

SpecPipeline == InitPipeline /\ [][NextPipeline]_vars

-----------------------------------------------------------------------------
(* Properties *)

Names(rows) == [i \in 1..Len(rows) |-> rows[i].team_name]

Decisive(rs) ==
    Cardinality({i \in 1..Len(rs) : rs[i].home_score # rs[i].away_score})
Drawn(rs) ==
    Cardinality({i \in 1..Len(rs) : rs[i].home_score = rs[i].away_score})

RECURSIVE SumPoints(_)
SumPoints(rows) ==
    IF rows = <<>> THEN 0 ELSE Head(rows).points + SumPoints(Tail(rows))

\* C1: the points of all returned rows add up to 3 per decisive result plus
\* 2 per drawn result.
C1_PointsConservation ==
    pc = "calc_done" =>
        SumPoints(sorted_standings) = 3 * Decisive(results) + 2 * Drawn(results)

C1_Witness ==
    /\ pc = "calc_done"
    /\ Decisive(results) >= 1
    /\ Drawn(results) >= 1
    /\ SumPoints(sorted_standings) = 5

\* C2: the returned list is ordered by points, then goal difference, then
\* goals for, all descending; a later criterion never overrides an earlier one.
C2_LexOrder ==
    pc = "calc_done" =>
        \A i, j \in 1..Len(sorted_standings) :
            i < j =>
                LET a == sorted_standings[i]
                    b == sorted_standings[j]
                IN  \/ a.points > b.points
                    \/ /\ a.points = b.points
                       /\ a.goal_difference > b.goal_difference
                    \/ /\ a.points = b.points
                       /\ a.goal_difference = b.goal_difference
                       /\ a.goals_for >= b.goals_for

\* two rows level on points split by goal difference, and two rows level on
\* points and goal difference split by goals for
C2_Witness ==
    /\ pc = "calc_done"
    /\ \E i, j \in 1..Len(sorted_standings) :
        /\ i < j
        /\ sorted_standings[i].points = sorted_standings[j].points
        /\ \/ sorted_standings[i].goal_difference
                > sorted_standings[j].goal_difference
           \/ /\ sorted_standings[i].goal_difference
                    = sorted_standings[j].goal_difference
              /\ sorted_standings[i].goals_for > sorted_standings[j].goals_for
        /\ TeamHash(sorted_standings[i].team_name)
                > TeamHash(sorted_standings[j].team_name)

TiedOnFootball(a, b) ==
    /\ a.points = b.points
    /\ a.goal_difference = b.goal_difference
    /\ a.goals_for = b.goals_for

FairPlayOrdered(rows) ==
    \A i, j \in 1..Len(rows) :
        (TiedOnFootball(rows[i], rows[j])
            /\ rows[i].fair_play_points > rows[j].fair_play_points) => i < j

\* C3: of two rows level on points, goal difference and goals for, the one
\* with the greater fair-play points comes first, in group standings and in
\* the third-place ranking.
C3_FairPlayDirection ==
    /\ pc = "calc_done" => FairPlayOrdered(sorted_standings)
    /\ pc = "third_done" => FairPlayOrdered(third_place)

\* -1 is ranked above -4 although the -4 team was inserted first and has the
\* smaller name digest
C3_Witness ==
    /\ pc = "calc_done"
    /\ \E i, j \in 1..Len(sorted_standings) :
        /\ i < j
        /\ TiedOnFootball(sorted_standings[i], sorted_standings[j])
        /\ sorted_standings[i].played > 0
        /\ sorted_standings[i].fair_play_points = -1
        /\ sorted_standings[j].fair_play_points = -4
        /\ TeamHash(sorted_standings[j].team_name)
                < TeamHash(sorted_standings[i].team_name)
        /\ TeamIndex(standings_dict, sorted_standings[j].team_name)
                < TeamIndex(standings_dict, sorted_standings[i].team_name)

CardCount(card_data, key) ==
    IF key \in DOMAIN card_data THEN card_data[key] ELSE 0

RecordsOf(team_name) ==
    IF cards.some
    THEN {k \in 1..Len(cards.val) : cards.val[k]["team_name"] = team_name}
    ELSE {}

\* C4: a team with one disciplinary record has fair-play points
\* -yellow - 2*second_yellow - 4*red, a missing count counting as 0; a team
\* with no record has 0.
C4_FairPlayArithmetic ==
    pc = "calc_done" =>
        \A i \in 1..Len(sorted_standings) :
            LET row == sorted_standings[i]
                recs == RecordsOf(row.team_name)
            IN  /\ recs = {} => row.fair_play_points = 0
                /\ \A k \in recs :
                    recs = {k} =>
                        row.fair_play_points =
                            0 - CardCount(cards.val[k], "yellow")
                              - 2 * CardCount(cards.val[k], "second_yellow")
                              - 4 * CardCount(cards.val[k], "red")

\* {yellow: 1, second_yellow: 1} with no red count gives -3, next to a team
\* without a record
C4_Witness ==
    /\ pc = "calc_done"
    /\ cards.some
    /\ \E i, j \in 1..Len(sorted_standings) :
        /\ RecordsOf(sorted_standings[i].team_name) = {1}
        /\ DOMAIN cards.val[1] = {"team_name", "yellow", "second_yellow"}
        /\ cards.val[1]["yellow"] = 1
        /\ cards.val[1]["second_yellow"] = 1
        /\ sorted_standings[i].fair_play_points = -3
        /\ RecordsOf(sorted_standings[j].team_name) = {}
        /\ sorted_standings[j].fair_play_points = 0

PredictedOf(team_name) ==
    IF predicted_ranks.some /\ team_name \in DOMAIN predicted_ranks.val
    THEN predicted_ranks.val[team_name] ELSE AiSentinel

TiedOnAll(a, b) ==
    /\ TiedOnFootball(a, b)
    /\ a.fair_play_points = b.fair_play_points

HashOrdered(rows, Tied(_, _)) ==
    \A i, j \in 1..Len(rows) :
        (i < j /\ Tied(rows[i], rows[j])) =>
            TeamHash(rows[i].team_name) < TeamHash(rows[j].team_name)

TiedInGroup(a, b) ==
    TiedOnAll(a, b) /\ PredictedOf(a.team_name) = PredictedOf(b.team_name)

\* C5: the order of rows level on every criterion is the order of the
\* digests of their names, and the returned team-name order does not change
\* when the rows reach the sort in the opposite order.
C5_DeterministicFallback ==
    /\ pc = "calc_done" =>
        /\ HashOrdered(sorted_standings, TiedInGroup)
        /\ Names(sorted_standings)
            = Names(SortAndRank(Reverse(standings_dict), predicted_ranks))
    /\ pc = "third_done" =>
        /\ HashOrdered(third_place, TiedOnAll)
        /\ Names(third_place)
            = Names(RankThirdPlaceTeams(Reverse(all_standings)))

\* two rows level on everything come out against their insertion order
C5_Witness ==
    /\ pc = "calc_done"
    /\ \E i, j \in 1..Len(sorted_standings) :
        /\ i < j
        /\ TiedInGroup(sorted_standings[i], sorted_standings[j])
        /\ sorted_standings[i].played > 0
        /\ TeamIndex(standings_dict, sorted_standings[j].team_name)
                < TeamIndex(standings_dict, sorted_standings[i].team_name)

EligibleGroups ==
    {i \in 1..Len(all_standings) : Len(all_standings[i].val) >= 3}

\* C6: rank_third_place_teams returns min(8, E) rows, E the number of groups
\* with at least 3 rows; the empty map gives the empty list.
C6_ThirdPlaceBound ==
    pc = "third_done" =>
        Len(third_place) = Min(8, Cardinality(EligibleGroups))

C6_Witness ==
    /\ pc = "third_done"
    /\ Cardinality(EligibleGroups) > 8
    /\ Len(third_place) = 8

\* the group comparator: points, goal difference, goals for, fair play, all
\* descending, then the name digest ascending
Better(a, b) ==
    \/ a.points > b.points
    \/ a.points = b.points /\ a.goal_difference > b.goal_difference
    \/ TiedOnFootball(a, b) /\ a.fair_play_points > b.fair_play_points
    \/ /\ a.points = b.points
       /\ a.goal_difference = b.goal_difference
       /\ a.goals_for > b.goals_for
    \/ TiedOnAll(a, b) /\ TeamHash(a.team_name) < TeamHash(b.team_name)

EligibleRows == {all_standings[i].val[3] : i \in EligibleGroups}

\* C7: the third-place list is in comparator order and no eligible row left
\* out is better than a returned row.
C7_ThirdPlaceKeepsBest ==
    pc = "third_done" =>
        /\ \A i, j \in 1..Len(third_place) :
                i < j => ~Better(third_place[j], third_place[i])
        /\ \A e \in EligibleRows \ Range(third_place) :
                \A r \in Range(third_place) : ~Better(e, r)

\* nine candidates: the one left out belongs to the group inserted first
C7_Witness ==
    /\ pc = "third_done"
    /\ Cardinality(EligibleGroups) > 8
    /\ all_standings[1].val[3] \notin Range(third_place)
    /\ \E r \in Range(third_place) : Better(r, all_standings[1].val[3])

GroupHasRank(g, n) ==
    HasKey(all_standings, g) /\ Len(Lookup(all_standings, g)) >= n

RankResolved(label, name) ==
    \A g \in Range(AllGroupLetters) :
        /\ label = WinnerLabel(g) =>
            /\ GroupHasRank(g, 1) => name = Lookup(all_standings, g)[1].team_name
            /\ name = TBD <=> ~GroupHasRank(g, 1)
        /\ label = RunnerUpLabel(g) =>
            /\ GroupHasRank(g, 2) => name = Lookup(all_standings, g)[2].team_name
            /\ name = TBD <=> ~GroupHasRank(g, 2)

\* C8: "Winner G" resolves to the name of the row at position 0 of group G
\* and "Runner-up G" to the one at position 1; the result is "TBD" exactly
\* when G is not in the map or its list is too short.
C8_WinnerRunnerUp ==
    \A m \in 1..Len(resolved_matches) :
        /\ RankResolved(resolved_matches[m].home_team_label,
                        resolved_matches[m].home_team_name)
        /\ RankResolved(resolved_matches[m].away_team_label,
                        resolved_matches[m].away_team_name)

C8_Witness ==
    /\ pc = "bracket_done"
    /\ \E m, n \in 1..Len(resolved.ret) :
        /\ resolved.ret[m].home_team_label = WinnerLabel(GA)
        /\ resolved.ret[m].home_team_name = GroupTeam(GA, "1")
        /\ resolved.ret[n].home_team_label = RunnerUpLabel(GA)
        /\ resolved.ret[n].home_team_name = GroupTeam(GA, "2")
        /\ resolved.ret[n].away_team_label = RunnerUpLabel(GB)
        /\ resolved.ret[n].away_team_name = TBD

QualifiersOf(g) ==
    {third_place[i].team_name :
        i \in {k \in 1..Len(third_place) : third_place[k].group_letter = g}}

ThirdResolved(label, name) ==
    \A gs \in UNION {[1..n -> {GC, GD, GE, GF}] : n \in 1..3} :
        label = ThirdLabel(gs) =>
            IF \E i \in 1..Len(gs) : QualifiersOf(gs[i]) # {}
            THEN LET first == CHOOSE i \in 1..Len(gs) :
                                /\ QualifiersOf(gs[i]) # {}
                                /\ \A j \in 1..(i - 1) : QualifiersOf(gs[j]) = {}
                 IN  name \in QualifiersOf(gs[first])
            ELSE name = TBD

\* C9: "3rd Place G1/.../Gk" resolves to the name of a qualifier of the first
\* listed group that has one among the supplied qualifiers, and to "TBD"
\* when no listed group has one.
C9_ThirdPlaceLabel ==
    \A m \in 1..Len(resolved_matches) :
        /\ ThirdResolved(resolved_matches[m].home_team_label,
                         resolved_matches[m].home_team_name)
        /\ ThirdResolved(resolved_matches[m].away_team_label,
                         resolved_matches[m].away_team_name)

\* qualifiers listed D then C: "3rd Place C/D/E" takes the team of group C
\* and "3rd Place E/D" the team of group D
C9_Witness ==
    /\ pc = "bracket_done"
    /\ Len(third_place) = 2
    /\ third_place[1].group_letter = GD
    /\ third_place[2].group_letter = GC
    /\ \E m, n \in 1..Len(resolved.ret) :
        /\ resolved.ret[m].away_team_label = ThirdLabel(<<GC, GD, GE>>)
        /\ resolved.ret[m].away_team_name = third_place[2].team_name
        /\ resolved.ret[n].away_team_label = ThirdLabel(<<GE, GD>>)
        /\ resolved.ret[n].away_team_name = third_place[1].team_name

\* C10: resolve_knockout_bracket never lets an exception reach its caller.
C10_NeverRaises == pc # "bracket_raised"

\* the label does not begin with "Winner ", "Runner-up " or "3rd Place "
LiteralLabel(label) ==
    \A prefix \in {WinnerPrefix, RunnerUpPrefix, ThirdPrefix} :
        \/ Len(label) < Len(prefix)
        \/ \E k \in 1..Len(prefix) : label[k] # prefix[k]

\* C11: a label that starts with none of the three prefixes is the resolved
\* name, unchanged.
C11_LiteralPassThrough ==
    \A m \in 1..Len(resolved_matches) :
        /\ LiteralLabel(resolved_matches[m].home_team_label) =>
            resolved_matches[m].home_team_name
                = resolved_matches[m].home_team_label
        /\ LiteralLabel(resolved_matches[m].away_team_label) =>
            resolved_matches[m].away_team_name
                = resolved_matches[m].away_team_label

\* a team name, "Winner" without its blank, " Winner A" and "winner B" come
\* back as they are while group A has a winner
C11_Witness ==
    /\ pc = "bracket_done"
    /\ GroupHasRank(GA, 1)
    /\ \E m, n \in 1..Len(resolved.ret) :
        /\ resolved.ret[m].home_team_name = Mexico
        /\ resolved.ret[m].away_team_name = Remove(WinnerPrefix, <<" ">>)
        /\ resolved.ret[n].home_team_name = <<" ">> \o WinnerLabel(GA)
        /\ resolved.ret[n].away_team_name = <<"w">> \o Tail(WinnerLabel(GB))

\* C12: the returned list has one entry per input match, in input order, with
\* the input labels, match number, venue and kickoff time.
C12_MatchDataPreserved ==
    pc = "bracket_done" =>
        /\ Len(resolved.ret) = Len(knockout_matches)
        /\ \A m \in 1..Len(knockout_matches) :
            /\ resolved.ret[m].home_team_label
                    = knockout_matches[m]["home_team_label"]
            /\ resolved.ret[m].away_team_label
                    = knockout_matches[m]["away_team_label"]
            /\ resolved.ret[m].match_number
                    = knockout_matches[m]["match_number"]
            /\ resolved.ret[m].venue = knockout_matches[m]["venue"]
            /\ resolved.ret[m].kickoff_at = knockout_matches[m]["kickoff_at"]

\* two matches in descending number order: a team and a "TBD" slot in one,
\* two literals with their own venue in the other
C12_Witness ==
    /\ pc = "bracket_done"
    /\ Len(resolved.ret) = 2
    /\ resolved.ret[1].match_number = 79
    /\ resolved.ret[1].venue = "stadium"
    /\ resolved.ret[1].home_team_name = resolved.ret[1].home_team_label
    /\ resolved.ret[2].match_number = 73
    /\ resolved.ret[2].venue = "venue"
    /\ resolved.ret[2].home_team_name = GroupTeam(GA, "1")
    /\ resolved.ret[2].away_team_name = TBD
    /\ resolved.ret[2].away_team_label = ThirdLabel(<<GC, GD, GE>>)

\* a row without the two fields that depend on the order
Statistics(row) == [row EXCEPT !.rank = NoRank, !.predicted_rank = NoRank]

PositionOf(rows, team_name) ==
    CHOOSE i \in 1..Len(rows) : rows[i].team_name = team_name

BetterOnFootball(a, b) ==
    TupleLess(<<-a.points, -a.goal_difference, -a.goals_for,
                -a.fair_play_points>>,
              <<-b.points, -b.goal_difference, -b.goals_for,
                -b.fair_play_points>>)

InMap(row) == row.team_name \in DOMAIN predicted_ranks.val

\* C14: with a non-empty predicted-rank map, of two rows level on points,
\* goal difference, goals for and fair-play points the one with the lower
\* predicted rank is first, a team in the map is ahead of a team outside it,
\* and the name digest orders the rows whose predicted ranks are equal or
\* both absent.
C14_PredictedRankOrder ==
    (pc = "calc_done" /\ TruthyDict(predicted_ranks)) =>
        \A i, j \in 1..Len(sorted_standings) :
            LET a == sorted_standings[i]
                b == sorted_standings[j]
            IN  (i # j /\ TiedOnAll(a, b)) =>
                    /\ (InMap(a) /\ InMap(b)
                        /\ predicted_ranks.val[a.team_name]
                            < predicted_ranks.val[b.team_name]) => i < j
                    /\ (InMap(a) /\ ~InMap(b)) => i < j
                    /\ (\/ ~InMap(a) /\ ~InMap(b)
                        \/ InMap(a) /\ InMap(b)
                            /\ predicted_ranks.val[a.team_name]
                                = predicted_ranks.val[b.team_name]) =>
                        (i < j <=> TeamHash(a.team_name)
                                    < TeamHash(b.team_name))

\* two level rows after a draw: the one in the map is first although its
\* digest is the greater
C14_Witness ==
    /\ pc = "calc_done"
    /\ TruthyDict(predicted_ranks)
    /\ Len(sorted_standings) = 2
    /\ TiedOnAll(sorted_standings[1], sorted_standings[2])
    /\ sorted_standings[1].draw = 1
    /\ InMap(sorted_standings[1])
    /\ ~InMap(sorted_standings[2])
    /\ TeamHash(sorted_standings[2].team_name)
        < TeamHash(sorted_standings[1].team_name)

RECURSIVE SumTo(_, _)
SumTo(f, n) == IF n = 0 THEN 0 ELSE f[n] + SumTo(f, n - 1)

\* goals scored and conceded by a team over the results, on either side
GoalsScored(team_name) ==
    SumTo([r \in 1..Len(results) |->
            (IF results[r].home_team = team_name
             THEN results[r].home_score ELSE 0)
            + (IF results[r].away_team = team_name
               THEN results[r].away_score ELSE 0)], Len(results))

GoalsConceded(team_name) ==
    SumTo([r \in 1..Len(results) |->
            (IF results[r].home_team = team_name
             THEN results[r].away_score ELSE 0)
            + (IF results[r].away_team = team_name
               THEN results[r].home_score ELSE 0)], Len(results))

\* C17: in every returned row goal_difference = goals_for - goals_against,
\* where goals_for and goals_against are the goals the team scored and
\* conceded, summed over all the results it appears in as home or away.
C17_GoalDifference ==
    pc = "calc_done" =>
        \A i \in 1..Len(sorted_standings) :
            LET row == sorted_standings[i]
            IN  /\ row.goals_for = GoalsScored(row.team_name)
                /\ row.goals_against = GoalsConceded(row.team_name)
                /\ row.goal_difference = row.goals_for - row.goals_against

\* a team that drew 1-1 and lost 0-1: one goal for, two against
C17_Witness ==
    /\ pc = "calc_done"
    /\ \E i \in 1..Len(sorted_standings) :
        /\ sorted_standings[i].played = 2
        /\ sorted_standings[i].goals_for = 1
        /\ sorted_standings[i].goals_against = 2
        /\ sorted_standings[i].goal_difference = -1

\* what the first k results say about a team
WinsIn(team_name, k) ==
    Cardinality({r \in 1..k :
        \/ results[r].home_team = team_name
            /\ results[r].home_score > results[r].away_score
        \/ results[r].away_team = team_name
            /\ results[r].away_score > results[r].home_score})

LossesIn(team_name, k) ==
    Cardinality({r \in 1..k :
        \/ results[r].home_team = team_name
            /\ results[r].home_score < results[r].away_score
        \/ results[r].away_team = team_name
            /\ results[r].away_score < results[r].home_score})

DrawsIn(team_name, k) ==
    Cardinality({r \in 1..k :
        results[r].home_team = team_name
            /\ results[r].home_score = results[r].away_score})
    + Cardinality({r \in 1..k :
        results[r].away_team = team_name
            /\ results[r].home_score = results[r].away_score})

RowsAgree(rows, k) ==
    \A i \in 1..Len(rows) :
        /\ rows[i].played = rows[i].won + rows[i].draw + rows[i].lost
        /\ rows[i].points = 3 * rows[i].won + rows[i].draw
        /\ rows[i].won = WinsIn(rows[i].team_name, k)
        /\ rows[i].lost = LossesIn(rows[i].team_name, k)
        /\ rows[i].draw = DrawsIn(rows[i].team_name, k)

\* C18: after each result folded in, and in every returned row,
\* played = won + draw + lost and points = 3 * won + draw; every decisive
\* result so far is one win for its winner and one loss for its loser, every
\* tie one draw for each side.
C18_RowConsistency ==
    /\ pc = "calc_fold" => RowsAgree(standings_dict, idx - 1)
    /\ pc \in {"calc_cards", "calc_sort"} =>
        RowsAgree(standings_dict, Len(results))
    /\ pc = "calc_done" => RowsAgree(sorted_standings, Len(results))

\* between the two results of a call: the first was decisive, its winner has
\* 3 points from one win and its loser 0 points from one loss
C18_Witness ==
    /\ pc = "calc_fold"
    /\ idx = 2
    /\ Len(results) = 2
    /\ \E i, j \in 1..Len(standings_dict) :
        /\ standings_dict[i].won = 1
        /\ standings_dict[i].points = 3
        /\ standings_dict[i].played = 1
        /\ standings_dict[j].lost = 1
        /\ standings_dict[j].points = 0
        /\ standings_dict[j].played = 1

\* the team names the call is given
ObservedTeams ==
    {results[r].home_team : r \in 1..Len(results)}
    \cup {results[r].away_team : r \in 1..Len(results)}
    \cup (IF cards.some /\ cards.val # <<>>
          THEN {cards.val[c]["team_name"] : c \in 1..Len(cards.val)}
          ELSE {})

InResults(team_name) ==
    \E r \in 1..Len(results) :
        team_name \in {results[r].home_team, results[r].away_team}

\* C19: the returned rows are one row for each team named in the results or
\* in a card record, and no other; a team named only in card records has
\* all-zero match statistics.
C19_ObservedTeams ==
    pc = "calc_done" =>
        /\ {sorted_standings[i].team_name : i \in 1..Len(sorted_standings)}
            = ObservedTeams
        /\ Len(sorted_standings) = Cardinality(ObservedTeams)
        /\ \A i \in 1..Len(sorted_standings) :
            ~InResults(sorted_standings[i].team_name) =>
                /\ sorted_standings[i].played = 0
                /\ sorted_standings[i].won = 0
                /\ sorted_standings[i].draw = 0
                /\ sorted_standings[i].lost = 0
                /\ sorted_standings[i].goals_for = 0
                /\ sorted_standings[i].goals_against = 0
                /\ sorted_standings[i].goal_difference = 0
                /\ sorted_standings[i].points = 0

\* a result between two teams and a card record for a team outside it
C19_Witness ==
    /\ pc = "calc_done"
    /\ Len(results) = 1
    /\ Len(sorted_standings) = 3
    /\ \E i \in 1..3 :
        /\ sorted_standings[i].team_name = TeamD
        /\ sorted_standings[i].played = 0
        /\ sorted_standings[i].fair_play_points < 0

\* C20: the row at position i of the returned list, counted from 1, has
\* rank i, with or without predicted ranks.
C20_RankIsPosition ==
    pc = "calc_done" =>
        \A i \in 1..Len(sorted_standings) : sorted_standings[i].rank = i

\* three rows, the last two level on every football criterion, ranked 1, 2, 3
C20_Witness ==
    /\ pc = "calc_done"
    /\ Len(sorted_standings) = 3
    /\ TiedOnAll(sorted_standings[2], sorted_standings[3])
    /\ sorted_standings[2].played = 1
    /\ \A i \in 1..3 : sorted_standings[i].rank = i

\* the predictions between two teams of team_names, as results
KeptPredictions ==
    LET kept == SelectSeq(group_predictions,
                    LAMBDA pred :
                        /\ \E i \in 1..Len(team_names) :
                            team_names[i] = pred["home_team_name"]
                        /\ \E i \in 1..Len(team_names) :
                            team_names[i] = pred["away_team_name"])
    IN  [i \in 1..Len(kept) |->
            [home_team |-> kept[i]["home_team_name"],
             away_team |-> kept[i]["away_team_name"],
             home_score |->
                IF "predicted_home_score" \in DOMAIN kept[i]
                THEN kept[i]["predicted_home_score"] ELSE 0,
             away_score |->
                IF "predicted_away_score" \in DOMAIN kept[i]
                THEN kept[i]["predicted_away_score"] ELSE 0]]

\* C15: calculate_predicted_standings returns the map team -> rank of
\* calculate_standings, without cards and predicted ranks, on the predictions
\* whose two teams are in team_names, a missing score counting as 0; it
\* returns the empty map when no prediction is kept.
C15_SimulationEqualsReal ==
    pc = "pred_done" =>
        IF KeptPredictions = <<>>
        THEN DOMAIN predicted_map = {}
        ELSE LET rows ==
                    CalculateStandings(group_letter, KeptPredictions,
                                       None, None)
             IN  /\ DOMAIN predicted_map
                        = {rows[i].team_name : i \in 1..Len(rows)}
                 /\ \A i \in 1..Len(rows) :
                        predicted_map[rows[i].team_name] = rows[i].rank

\* of two predictions one names a team outside the group of two and is
\* dropped; the other has no home score and ranks the away side first
C15_Witness ==
    /\ pc = "pred_done"
    /\ team_names = <<Mexico, Poland>>
    /\ Len(group_predictions) = 2
    /\ Len(simulated_results) = 1
    /\ \E k \in 1..2 :
        /\ group_predictions[k]["home_team_name"] = Mexico
        /\ group_predictions[k]["away_team_name"] = Poland
        /\ "predicted_home_score" \notin DOMAIN group_predictions[k]
        /\ group_predictions[k]["predicted_away_score"] = 1
    /\ DOMAIN predicted_map = {Mexico, Poland}
    /\ predicted_map[Poland] = 1
    /\ predicted_map[Mexico] = 2

\* the value of call p when it runs alone
ValueAlone(p) ==
    IF invocations[p].op = "calc"
    THEN CalculateStandings(group_letter, invocations[p].arg, None, None)
    ELSE RankThirdPlaceTeams(invocations[p].arg)

ReturnedFrom(g) ==
    {i \in 1..Len(third_place) :
        third_place[i] \in Range(all_standings[g].val)}

\* C21: every row returned by rank_third_place_teams is the third row of a
\* group of the map with at least 3 rows; a group contributes at most one
\* row, a group with fewer than 3 rows none.
C21_ThirdRowExtraction ==
    pc = "third_done" =>
        /\ \A i \in 1..Len(third_place) :
            \E g \in 1..Len(all_standings) :
                /\ Len(all_standings[g].val) >= 3
                /\ third_place[i] = all_standings[g].val[3]
        /\ \A g \in 1..Len(all_standings) :
            /\ Cardinality(ReturnedFrom(g)) <= 1
            /\ Len(all_standings[g].val) < 3 => ReturnedFrom(g) = {}

\* three groups, the middle one of two rows: the third rows of the other two
\* are returned
C21_Witness ==
    /\ pc = "third_done"
    /\ Len(all_standings) = 3
    /\ Len(all_standings[1].val) = 3
    /\ Len(all_standings[2].val) = 2
    /\ Len(all_standings[3].val) = 3
    /\ Len(third_place) = 2
    /\ ReturnedFrom(1) # {}
    /\ ReturnedFrom(3) # {}

\* the row of the input map with the name and the group of a returned row
RowInMap(row) ==
    LET g == CHOOSE g \in 1..Len(all_standings) :
                all_standings[g].key = row.group_letter
        rows == all_standings[g].val
    IN  rows[CHOOSE k \in 1..Len(rows) : rows[k].team_name = row.team_name]

\* C30: a row returned by rank_third_place_teams is the row of its group,
\* with the rank it has inside the group; the returned rows are not numbered
\* by their position in the returned list.
C30_QualifiersNotRenumbered ==
    pc = "third_done" =>
        \A i \in 1..Len(third_place) :
            /\ third_place[i] = RowInMap(third_place[i])
            /\ third_place[i].rank = RowInMap(third_place[i]).rank

\* eight qualifiers, every one with the rank 3 it has in its group
C30_Witness ==
    /\ pc = "third_done"
    /\ Len(third_place) = 8
    /\ \A i \in 1..8 : third_place[i].rank = 3

\* the four criteria, descending, then the name digest
PlainKey(row) ==
    <<-row.points, -row.goal_difference, -row.goals_for,
      -row.fair_play_points, TeamHash(row.team_name)>>

\* C22: with predicted_ranks None or empty the returned rows are in the order
\* of the four criteria with the name digest as fallback, and predicted_rank
\* is unset on every row.
C22_AbsentMapHashFallback ==
    (pc = "calc_done" /\ (~predicted_ranks.some
                            \/ DOMAIN predicted_ranks.val = {})) =>
        /\ \A i, j \in 1..Len(sorted_standings) :
            i < j => TupleLess(PlainKey(sorted_standings[i]),
                               PlainKey(sorted_standings[j]))
        /\ \A i \in 1..Len(sorted_standings) :
            sorted_standings[i].predicted_rank = NoRank

\* an empty map and a draw: the two level rows come out in digest order,
\* against the order in which they were created
C22_Witness ==
    /\ pc = "calc_done"
    /\ predicted_ranks.some
    /\ DOMAIN predicted_ranks.val = {}
    /\ Len(sorted_standings) = 2
    /\ sorted_standings[1].draw = 1
    /\ TiedOnAll(sorted_standings[1], sorted_standings[2])
    /\ standings_dict[1].team_name = sorted_standings[2].team_name

\* -yellow - 2*second_yellow - 4*red of one record
RecordPoints(card_data) ==
    0 - CardCount(card_data, "yellow")
      - 2 * CardCount(card_data, "second_yellow")
      - 4 * CardCount(card_data, "red")

LastRecordOf(team_name) ==
    CHOOSE k \in RecordsOf(team_name) :
        \A other \in RecordsOf(team_name) : other <= k

\* C26: the fair-play points of a team with disciplinary records are the
\* formula applied to its last record in list order; its earlier records have
\* no effect.
C26_LastCardRecordWins ==
    pc = "calc_done" =>
        \A i \in 1..Len(sorted_standings) :
            RecordsOf(sorted_standings[i].team_name) # {} =>
                sorted_standings[i].fair_play_points =
                    RecordPoints(
                        cards.val[LastRecordOf(sorted_standings[i].team_name)])

\* two records for one team after a draw: the first record is ignored, and
\* the same call with the two records exchanged ranks the teams the other
\* way round
C26_Witness ==
    /\ pc = "calc_done"
    /\ cards.some
    /\ Len(cards.val) = 2
    /\ cards.val[1]["team_name"] = cards.val[2]["team_name"]
    /\ RecordPoints(cards.val[1]) < 0
    /\ Len(sorted_standings) = 2
    /\ TiedOnFootball(sorted_standings[1], sorted_standings[2])
    /\ \E i \in 1..2 :
        /\ sorted_standings[i].team_name = cards.val[1]["team_name"]
        /\ sorted_standings[i].fair_play_points = RecordPoints(cards.val[2])
        /\ sorted_standings[i].fair_play_points # RecordPoints(cards.val[1])
    /\ Names(CalculateStandings(group_letter, results,
                                Some(Reverse(cards.val)), predicted_ranks))
        = Reverse(Names(sorted_standings))

\* the orders in which the same results can be listed
Orderings(n) ==
    {f \in [1..n -> 1..n] : \A i, j \in 1..n : f[i] = f[j] => i = j}

\* C25: calculate_standings returns the same list, with the same teams in
\* the same order with the same statistics and ranks, for every order of the
\* results list.
C25_ResultOrderIrrelevant ==
    pc = "calc_done" =>
        \A f \in Orderings(Len(results)) :
            CalculateStandings(group_letter,
                               [i \in 1..Len(results) |-> results[f[i]]],
                               cards, predicted_ranks)
                = sorted_standings

\* two results over three teams, two of them level: listed the other way
\* round the rows are created in another order
C25_Witness ==
    /\ pc = "calc_done"
    /\ Len(results) = 2
    /\ Len(sorted_standings) = 3
    /\ results[1].home_team # results[1].away_team
    /\ results[2].home_team # results[2].away_team
    /\ Names(InitTeams(group_letter, Reverse(results), cards))
        # Names(standings_dict)
    /\ \E i, j \in 1..3 :
        i # j /\ TiedOnAll(sorted_standings[i], sorted_standings[j])

\* the positions of the predictions whose two teams are in team_names
MatchedPredictions ==
    {k \in 1..Len(group_predictions) :
        /\ group_predictions[k]["home_team_name"] \in Range(team_names)
        /\ group_predictions[k]["away_team_name"] \in Range(team_names)}

MatchedTeams ==
    {group_predictions[k]["home_team_name"] : k \in MatchedPredictions}
    \cup {group_predictions[k]["away_team_name"] : k \in MatchedPredictions}

\* C29: the keys of the map returned by calculate_predicted_standings are the
\* teams of the predictions whose two teams are in team_names, and its values
\* are 1..K, each used once, K the number of keys; a team of team_names
\* without such a prediction has no entry.
C29_MapCoversMatchedTeams ==
    pc = "pred_done" =>
        /\ DOMAIN predicted_map = MatchedTeams
        /\ {predicted_map[name] : name \in DOMAIN predicted_map}
            = 1..Cardinality(MatchedTeams)
        /\ \A name \in Range(team_names) \ MatchedTeams :
            name \notin DOMAIN predicted_map

\* a group of three with predictions for two of its teams only: the third
\* team has no entry
C29_Witness ==
    /\ pc = "pred_done"
    /\ Len(team_names) = 3
    /\ Len(group_predictions) = 2
    /\ MatchedPredictions = {1, 2}
    /\ DOMAIN predicted_map = {Mexico, TeamC}
    /\ Poland \notin DOMAIN predicted_map
    /\ {predicted_map[Mexico], predicted_map[TeamC]} = {1, 2}

\* the resolved slots: label and name
Slots ==
    {<<resolved_matches[m].home_team_label,
       resolved_matches[m].home_team_name>> : m \in 1..Len(resolved_matches)}
    \cup {<<resolved_matches[m].away_team_label,
            resolved_matches[m].away_team_name>> :
                m \in 1..Len(resolved_matches)}

GroupLists == UNION {[1..n -> {GC, GD, GE, GF}] : n \in 1..3}

\* "3rd Place D / C", the groups set off by blanks
SpacedThirdLabel(gs) ==
    ThirdPrefix \o gs[1] \o <<" ", "/", " ">> \o gs[2]

\* the spellings of the "3rd Place" label of each list of groups
ThirdSpellings ==
    [gs \in GroupLists |->
        {ThirdLabel(gs)}
        \cup (IF Len(gs) = 2 THEN {SpacedThirdLabel(gs)} ELSE {})]

IsThirdLabel(label) ==
    /\ Len(label) > Len(ThirdPrefix)
    /\ SubSeq(label, 1, Len(ThirdPrefix)) = ThirdPrefix
    /\ \E gs \in GroupLists : label \in ThirdSpellings[gs]

ListedGroups(label) ==
    CHOOSE gs \in GroupLists : label \in ThirdSpellings[gs]

\* the first listed group with a qualifier, <<>> when there is none
FirstQualifiedGroup(label) ==
    LET gs == ListedGroups(label)
    IN  IF \E i \in 1..Len(gs) : QualifiersOf(gs[i]) # {}
        THEN gs[CHOOSE i \in 1..Len(gs) :
                    /\ QualifiersOf(gs[i]) # {}
                    /\ \A j \in 1..(i - 1) : QualifiersOf(gs[j]) = {}]
        ELSE <<>>

\* C27: the name resolved for a label does not depend on the other slots:
\* equal labels resolve to equal names, and two "3rd Place" labels whose
\* first qualified listed group is the same group resolve to the same team of
\* that group.
C27_SlotsIndependent ==
    \A s \in Slots :
        /\ \A t \in Slots : s[1] = t[1] => s[2] = t[2]
        /\ IsThirdLabel(s[1]) =>
            LET g == FirstQualifiedGroup(s[1])
            IN  g # <<>> =>
                    /\ s[2] \in QualifiersOf(g)
                    /\ \A t \in Slots :
                        (IsThirdLabel(t[1])
                            /\ FirstQualifiedGroup(t[1]) = g) => t[2] = s[2]

\* only group D has a qualifier: "3rd Place C/D/E" and "3rd Place D / C" of
\* two matches both hold its team
C27_Witness ==
    /\ pc = "bracket_done"
    /\ Len(third_place) = 1
    /\ third_place[1].group_letter = GD
    /\ Len(resolved.ret) = 2
    /\ resolved.ret[1].away_team_label = ThirdLabel(<<GC, GD, GE>>)
    /\ resolved.ret[2].away_team_label = SpacedThirdLabel(<<GD, GC>>)
    /\ resolved.ret[1].away_team_name = third_place[1].team_name
    /\ resolved.ret[2].away_team_name = third_place[1].team_name

\* what a step leaves of the arguments of the running call, and of the list
\* handed to the sort
ArgumentsKept ==
    /\ results' = results
    /\ cards' = cards
    /\ predicted_ranks' = predicted_ranks
    /\ all_standings' = all_standings
    /\ knockout_matches' = knockout_matches
    /\ pc \in {"bracket_start", "bracket_loop"} => third_place' = third_place
    /\ pc = "third_sort" => third_place_teams' = third_place_teams

\* C24: no step of calculate_standings, rank_third_place_teams or
\* resolve_knockout_bracket changes an argument of the call (results, cards,
\* predicted ranks, the standings map and its rows, the qualifier list, the
\* raw matches), and the sort leaves its input list as it was.
C24_ArgumentsUnchanged == [][ArgumentsKept]_vars

\* the third-place call has returned a list in another order than the list
\* it handed to the sort, which is still in group order
C24_Witness ==
    /\ pc = "third_done"
    /\ Len(third_place_teams) = 3
    /\ third_place_teams = ThirdPlaceTeams(all_standings)
    /\ Names(third_place) = Reverse(Names(third_place_teams))

\* C23: initialize_group_standings(g, team_names) returns one row per entry
\* of team_names, in input order, with group_letter g, the 1-based input
\* position as rank, and every statistic 0.
C23_EmptyInitialStandings ==
    \A k \in 1..Len(all_standings) :
        LET rows == all_standings[k].val
        IN  /\ all_standings[k].key = groups[k].key
            /\ Len(rows) = Len(groups[k].val)
            /\ \A i \in 1..Len(rows) :
                /\ rows[i].team_name = groups[k].val[i]
                /\ rows[i].group_letter = groups[k].key
                /\ rows[i].rank = i
                /\ rows[i].played = 0
                /\ rows[i].won = 0
                /\ rows[i].draw = 0
                /\ rows[i].lost = 0
                /\ rows[i].goals_for = 0
                /\ rows[i].goals_against = 0
                /\ rows[i].goal_difference = 0
                /\ rows[i].points = 0
                /\ rows[i].fair_play_points = 0

\* groups of one, two and three teams have been initialised
C23_Witness ==
    /\ pc = "pipe_groups"
    /\ Len(all_standings) = 3
    /\ Len(all_standings[1].val) = 1
    /\ Len(all_standings[2].val) = 2
    /\ Len(all_standings[3].val) = 3
    /\ all_standings[3].val[3].team_name = GroupTeam(GC, "3")
    /\ all_standings[3].val[3].rank = 3

\* the team names of group g in update_tournament, <<>> without the group
RosterOf(g) ==
    IF \E k \in 1..Len(groups) : groups[k].key = g
    THEN groups[CHOOSE k \in 1..Len(groups) : groups[k].key = g].val
    ELSE <<>>

\* the name update_tournament must put in a "Winner"/"Runner-up" slot
RosterSlot(label, name) ==
    \A g \in Range(AllGroupLetters) :
        /\ label = WinnerLabel(g) =>
            name = (IF Len(RosterOf(g)) >= 1 THEN RosterOf(g)[1] ELSE TBD)
        /\ label = RunnerUpLabel(g) =>
            name = (IF Len(RosterOf(g)) >= 2 THEN RosterOf(g)[2] ELSE TBD)

\* the group lists of the "3rd Place" labels of update_tournament
PipelineThirdLists == {<<GC, GD, GE>>, <<GE, GD>>, <<GF>>, <<GI>>}

\* a "3rd Place" slot is "TBD" only when every listed group is missing or
\* has fewer than three teams
ThirdSlotShortOnly(label, name) ==
    \A gs \in PipelineThirdLists :
        (label = ThirdLabel(gs) /\ name = TBD) =>
            \A i \in 1..Len(gs) : Len(RosterOf(gs[i])) < 3

\* a "3rd Place" slot holds the third team name of a listed group among the
\* qualifiers, and "TBD" only when no listed group is among them
ThirdSlotQualified(label, name) ==
    \A gs \in PipelineThirdLists :
        label = ThirdLabel(gs) =>
            IF \E i \in 1..Len(gs) : QualifiersOf(gs[i]) # {}
            THEN \E i \in 1..Len(gs) :
                    /\ QualifiersOf(gs[i]) # {}
                    /\ name = RosterOf(gs[i])[3]
            ELSE name = TBD

\* the qualifiers are the third team names of min(8, E) groups, E the number
\* of groups of three, and no row has played
BeforeKickoff ==
    /\ \A k \in 1..Len(all_standings) :
        \A i \in 1..Len(all_standings[k].val) :
            all_standings[k].val[i].played = 0
    /\ Len(third_place)
        = Min(8, Cardinality({k \in 1..Len(groups) :
                                Len(groups[k].val) >= 3}))
    /\ \A i \in 1..Len(third_place) :
        /\ Len(RosterOf(third_place[i].group_letter)) >= 3
        /\ third_place[i].team_name
            = RosterOf(third_place[i].group_letter)[3]

\* C28 as stated: in update_tournament the bracket is resolved on standings
\* of zero matches, and every slot, a "3rd Place" slot included, is "TBD"
\* only when its group is missing or too short.
C28_TbdOnlyShortGroup ==
    /\ pc # "bracket_raised"
    /\ pc \in {"bracket_start", "bracket_loop", "bracket_done"} =>
        /\ BeforeKickoff
        /\ \A m \in 1..Len(resolved_matches) :
            /\ RosterSlot(resolved_matches[m].home_team_label,
                          resolved_matches[m].home_team_name)
            /\ RosterSlot(resolved_matches[m].away_team_label,
                          resolved_matches[m].away_team_name)
            /\ ThirdSlotShortOnly(resolved_matches[m].home_team_label,
                                  resolved_matches[m].home_team_name)
            /\ ThirdSlotShortOnly(resolved_matches[m].away_team_label,
                                  resolved_matches[m].away_team_name)

\* C28, amended: in update_tournament the bracket is resolved on standings of
\* zero matches: "Winner G" holds the first and "Runner-up G" the second team
\* name of group G, "TBD" only without the group or without that team; the
\* qualifiers are the third team names of min(8, E) groups, E the number of
\* groups of three; a "3rd Place" slot is "TBD" only when none of its listed
\* groups is among the qualifiers; no exception escapes.
C28_ResolvesBeforeKickoff ==
    /\ pc # "bracket_raised"
    /\ pc \in {"bracket_start", "bracket_loop", "bracket_done"} =>
        /\ BeforeKickoff
        /\ \A m \in 1..Len(resolved_matches) :
            /\ RosterSlot(resolved_matches[m].home_team_label,
                          resolved_matches[m].home_team_name)
            /\ RosterSlot(resolved_matches[m].away_team_label,
                          resolved_matches[m].away_team_name)
            /\ ThirdSlotQualified(resolved_matches[m].home_team_label,
                                  resolved_matches[m].home_team_name)
            /\ ThirdSlotQualified(resolved_matches[m].away_team_label,
                                  resolved_matches[m].away_team_name)

\* nine groups of three and no match played: eight qualifiers, group I is
\* left out, and "3rd Place I" against "Winner C" is "TBD" against a team
C28_Witness ==
    /\ pc = "bracket_done"
    /\ Len(groups) = 9
    /\ \A k \in 1..9 : Len(groups[k].val) = 3
    /\ Len(third_place) = 8
    /\ Len(resolved.ret) = 1
    /\ resolved.ret[1].home_team_label = ThirdLabel(<<GI>>)
    /\ resolved.ret[1].home_team_name = TBD
    /\ resolved.ret[1].away_team_label = WinnerLabel(GC)
    /\ resolved.ret[1].away_team_name = GroupTeam(GC, "1")

====
